---- MODULE Spec2Model ----
(***************************************************************************)
(* State-machine model of the RizeOS backend: conversation identity,       *)
(* the message store, the notification store with its fan-out helper, and  *)
(* the job-match scoring handler with its deterministic fallback.          *)
(*                                                                         *)
(* Strings are sequences of one-character strings, so that toLowerCase,    *)
(* sort, includes and the ObjectId cast are modelled by what they do.      *)
(***************************************************************************)
EXTENDS Integers, Sequences, FiniteSets, TLC

----------------------------------------------------------------------------
(* Bounds *)

MaxIdLen == 2
MaxMessages == 2
MaxNotifications == 2
MaxJobs == 1
MaxConnections == 2
MaxTotal == 120
\* largest experience total, in years
MaxYears == 24
\* documents in a paginated collection, largest page and limit requested
MaxDocs == 3
MaxPage == 4
MaxLimit == 3
\* requests handled concurrently
MaxProcs == 2
\* characters of an AI completion for the skill extraction
MaxTextLen == 3
\* profile views kept per user, and the last reading of the clock
MaxViews == 2
MaxTime == 3
MaxPosts == 1

----------------------------------------------------------------------------
(* JavaScript strings *)

UpperChars == <<"A","B","C","D","E","F","G","H","I","J","K","L","M",
                "N","O","P","Q","R","S","T","U","V","W","X","Y","Z">>
LowerChars == <<"a","b","c","d","e","f","g","h","i","j","k","l","m",
                "n","o","p","q","r","s","t","u","v","w","x","y","z">>
DigitChars == <<"0","1","2","3","4","5","6","7","8","9">>

IndexIn(seq, c) == CHOOSE i \in 1..Len(seq) : seq[i] = c
IsIn(seq, c) == \E i \in 1..Len(seq) : seq[i] = c

\* UTF-16 code unit of a character (the order String comparison uses)
CharCode(c) ==
  IF IsIn(DigitChars, c) THEN 47 + IndexIn(DigitChars, c)
  ELSE IF IsIn(UpperChars, c) THEN 64 + IndexIn(UpperChars, c)
  ELSE IF IsIn(LowerChars, c) THEN 96 + IndexIn(LowerChars, c)
  ELSE IF c = "_" THEN 95
  ELSE IF c = "{" THEN 123
  ELSE IF c = "}" THEN 125
  ELSE 32

ToLowerChar(c) == IF IsIn(UpperChars, c) THEN LowerChars[IndexIn(UpperChars, c)] ELSE c
ToUpperChar(c) == IF IsIn(LowerChars, c) THEN UpperChars[IndexIn(LowerChars, c)] ELSE c

toLowerCase(s) == [i \in 1..Len(s) |-> ToLowerChar(s[i])]
toUpperCase(s) == [i \in 1..Len(s) |-> ToUpperChar(s[i])]

\* s < t for strings: lexicographic on code units, a proper prefix is smaller
RECURSIVE StrLess(_, _)
StrLess(s, t) ==
  IF t = <<>> THEN FALSE
  ELSE IF s = <<>> THEN TRUE
  ELSE IF CharCode(Head(s)) # CharCode(Head(t)) THEN CharCode(Head(s)) < CharCode(Head(t))
  ELSE StrLess(Tail(s), Tail(t))

\* [x, y].sort() with the default comparator
SortPair(x, y) == IF StrLess(y, x) THEN <<y, x>> ELSE <<x, y>>

\* hay.includes(needle)
includes(hay, needle) ==
  \E i \in 0..(Len(hay) - Len(needle)) :
     \A k \in 1..Len(needle) : hay[i + k] = needle[k]

IsSpace(c) == c = " "

RECURSIVE trimStart(_)
trimStart(s) == IF s # <<>> /\ IsSpace(Head(s)) THEN trimStart(Tail(s)) ELSE s

RECURSIVE trimEnd(_)
trimEnd(s) ==
  IF s # <<>> /\ IsSpace(s[Len(s)]) THEN trimEnd(SubSeq(s, 1, Len(s) - 1)) ELSE s

trim(s) == trimEnd(trimStart(s))

\* all strings of length lo..hi over an alphabet
StringsOver(alphabet, lo, hi) == UNION {[1..n -> alphabet] : n \in lo..hi}

----------------------------------------------------------------------------
(* ObjectIds: canonical form is the lowercase hex string *)

HexLetters == {"a","b","c","d","e","f"}

IsHexChar(c) == IsIn(DigitChars, c) \/ ToLowerChar(c) \in HexLetters

\* ids of the users in the store, and a well-formed id of no user (ids are
\* one hex character here, 24 in the deployed store)
Users == {<<"a">>, <<"b">>}
GhostId == <<"f">>
BadId == <<"z">>

\* a string casts to an ObjectId when it is hex characters, of either case,
\* of an id's length
isValidObjectId(s) == Len(s) = Len(GhostId) /\ \A i \in 1..Len(s) : IsHexChar(s[i])

\* the ObjectId a string is cast to, written in its canonical form
castObjectId(s) == toLowerCase(s)

\* ids a client can put in a URL or a body: a user's id in either case, a
\* well-formed id of no user, or a string that is no ObjectId
ReqIds == Users \cup {toUpperCase(u) : u \in Users} \cup {GhostId, BadId}

findUserById(s) == castObjectId(s) \in Users

----------------------------------------------------------------------------
(* Conversation identity *)

toString(x) == x

generateConversationId_Unsorted(userId1, userId2) ==
  toString(userId1) \o <<"_">> \o toString(userId2)

generateConversationId_Lowercased(userId1, userId2) ==
  LET ids == SortPair(toLowerCase(toString(userId1)), toLowerCase(toString(userId2)))
  IN  ids[1] \o <<"_">> \o ids[2]

generateConversationId(userId1, userId2) ==
  LET ids == SortPair(toString(userId1), toString(userId2))
  IN  ids[1] \o <<"_">> \o ids[2]

----------------------------------------------------------------------------
(* State *)

VARIABLES
  fnArgs,      \* inputs of the pure function under check
  fnOut,       \* its results
  messages,    \* Message collection
  notifications, \* Notification collection
  connections, \* User.connections of every user
  jobs,        \* Job collection
  req,         \* the request being answered
  resp,        \* its response
  payments,    \* Payment collection, in insertion order
  users,       \* the premium, resume, appliedJobs and view fields of every user
  procs,       \* requests in flight: position and locals of each handler
  posts        \* Post collection: author and likes of every post

vars == <<fnArgs, fnOut, messages, notifications, connections, jobs, req, resp,
          payments, users, procs, posts>>

NoArgs == <<>>
NoOut == [done |-> FALSE]
NoReq == [op |-> "none"]
NoResp == [status |-> 0]
NoUsers ==
  [u \in Users |-> [isPremium |-> FALSE, premiumExpiresAt |-> 0,
                    resume |-> "", appliedJobs |-> <<>>,
                    profileViews |-> 0, viewedBy |-> <<>>]]
NoProcs == [p \in 1..MaxProcs |-> [pc |-> "idle"]]
NoPosts == <<>>

----------------------------------------------------------------------------
(* Specification of generateConversationId as a pure function *)

ConvAlphabet == {"b", "B", "_"}
ConvIds == StringsOver(ConvAlphabet, 1, MaxIdLen)

InitConv ==
  /\ fnArgs \in [a : ConvIds, b : ConvIds, c : ConvIds]
  /\ fnOut = NoOut
  /\ messages = {}
  /\ notifications = {}
  /\ connections = [u \in Users |-> <<>>]
  /\ jobs = {}
  /\ req = NoReq
  /\ resp = NoResp
  /\ payments = <<>>
  /\ users = NoUsers
  /\ procs = NoProcs
  /\ posts = NoPosts

GenerateConversationId ==
  /\ ~fnOut.done
  /\ fnOut' = [done |-> TRUE,
               ab |-> generateConversationId(fnArgs.a, fnArgs.b),
               ba |-> generateConversationId(fnArgs.b, fnArgs.a),
               ac |-> generateConversationId(fnArgs.a, fnArgs.c)]
  /\ UNCHANGED <<fnArgs, messages, notifications, connections, jobs, req, resp, payments, users, procs, posts>>

NextConv == GenerateConversationId

SpecConv == InitConv /\ [][NextConv]_vars

HasSeparator(s) == \E i \in 1..Len(s) : s[i] = "_"

\* C1: generateConversationId(a, b) = generateConversationId(b, a) for all
\* user ids a # b
C1_OrderIndependent ==
  (fnOut.done /\ fnArgs.a # fnArgs.b) => fnOut.ab = fnOut.ba

C1_Witness ==
  fnOut.done /\ fnArgs.a # fnArgs.b /\ StrLess(fnArgs.b, fnArgs.a)

\* C2: for ids without the separator '_', the pairs {a,b} and {a,c} with
\* a, b, c pairwise different never get the same conversation key
C2_CollisionFree ==
  (/\ fnOut.done
   /\ fnArgs.a # fnArgs.b /\ fnArgs.a # fnArgs.c /\ fnArgs.b # fnArgs.c
   /\ ~HasSeparator(fnArgs.a) /\ ~HasSeparator(fnArgs.b) /\ ~HasSeparator(fnArgs.c))
  => fnOut.ab # fnOut.ac

C2_Witness ==
  /\ fnOut.done
  /\ fnArgs.a # fnArgs.b /\ fnArgs.a # fnArgs.c /\ fnArgs.b # fnArgs.c
  /\ ~HasSeparator(fnArgs.a) /\ ~HasSeparator(fnArgs.b) /\ ~HasSeparator(fnArgs.c)
  /\ toLowerCase(fnArgs.b) = toLowerCase(fnArgs.c)
  /\ fnOut.ab # fnOut.ac

----------------------------------------------------------------------------
(* Message store and the /api/messages routes *)

Contents == {<<>>, <<" ">>, <<"h", "i", " ">>}

MessageIds == 1..MaxMessages

\* _id of a new document: the first id no stored document has
NewId(coll, ids) == CHOOSE i \in ids : /\ \A d \in coll : d.id # i
                                       /\ \A j \in ids : (\A d \in coll : d.id # j) => i <= j

\* Model.findById
findById(coll, id) == CHOOSE d \in coll : d.id = id
exists(coll, id) == \E d \in coll : d.id = id

\* Model.find, Model.countDocuments, Model.updateMany with a filter
find(coll, Match(_)) == {d \in coll : Match(d)}
countDocuments(coll, Match(_)) == Cardinality({d \in coll : Match(d)})
updateMany(coll, Match(_), Update(_)) == {IF Match(d) THEN Update(d) ELSE d : d \in coll}

\* POST /send
SendMessage(u, receiverId, content) ==
  /\ req' = [op |-> "send", user |-> u, target |-> receiverId]
  /\ IF receiverId = <<>> \/ content = <<>> \/ trim(content) = <<>>
     THEN /\ resp' = [status |-> 400, error |-> "Receiver and message content are required"]
          /\ UNCHANGED messages
     ELSE IF ~isValidObjectId(receiverId)
     THEN /\ resp' = [status |-> 500, error |-> "Server error"]
          /\ UNCHANGED messages
     ELSE IF ~findUserById(receiverId)
     THEN /\ resp' = [status |-> 404, error |-> "Receiver not found"]
          /\ UNCHANGED messages
     ELSE IF receiverId = u
     THEN /\ resp' = [status |-> 400, error |-> "Cannot send message to yourself"]
          /\ UNCHANGED messages
     ELSE /\ Cardinality(messages) < MaxMessages
          /\ LET message == [id |-> NewId(messages, MessageIds),
                             conversationId |-> generateConversationId(u, receiverId),
                             sender |-> castObjectId(u),
                             receiver |-> castObjectId(receiverId),
                             content |-> trim(content),
                             read |-> FALSE]
             IN  /\ messages' = messages \cup {message}
                 /\ resp' = [status |-> 201, data |-> message.id]
  /\ UNCHANGED <<fnArgs, fnOut, notifications, connections, jobs, payments, users, procs, posts>>

\* GET /conversation/:userId
GetConversation(u, otherUserId) ==
  /\ req' = [op |-> "conversation", user |-> u, target |-> otherUserId]
  /\ IF ~isValidObjectId(otherUserId)
     THEN /\ resp' = [status |-> 500, error |-> "Server error"]
          /\ UNCHANGED messages
     ELSE IF ~findUserById(otherUserId)
     THEN /\ resp' = [status |-> 404, error |-> "User not found"]
          /\ UNCHANGED messages
     ELSE LET conversationId == generateConversationId(u, otherUserId)
              InConversation(m) == m.conversationId = conversationId
              ToMark(m) == /\ m.conversationId = conversationId
                           /\ m.receiver = castObjectId(u)
                           /\ m.read = FALSE
              Mark(m) == [m EXCEPT !.read = TRUE]
          IN  /\ messages' = updateMany(messages, ToMark, Mark)
              /\ resp' = [status |-> 200, conversationId |-> conversationId,
                          messages |-> {m.id : m \in find(messages, InConversation)}]
  /\ UNCHANGED <<fnArgs, fnOut, notifications, connections, jobs, payments, users, procs, posts>>

\* a mark-as-read that does not ask who the receiver is
MarkMessageRead_AnyUser(u, messageId) ==
  /\ req' = [op |-> "markRead", user |-> u, target |-> messageId]
  /\ IF ~exists(messages, messageId)
     THEN /\ resp' = [status |-> 404, error |-> "Message not found"]
          /\ UNCHANGED messages
     ELSE LET message == findById(messages, messageId)
          IN  /\ messages' = (messages \ {message}) \cup {[message EXCEPT !.read = TRUE]}
              /\ resp' = [status |-> 200, message |-> "Message marked as read"]
  /\ UNCHANGED <<fnArgs, fnOut, notifications, connections, jobs, payments, users, procs, posts>>

\* PUT /:messageId/read
MarkMessageRead(u, messageId) ==
  /\ req' = [op |-> "markRead", user |-> u, target |-> messageId]
  /\ IF ~exists(messages, messageId)
     THEN /\ resp' = [status |-> 404, error |-> "Message not found"]
          /\ UNCHANGED messages
     ELSE LET message == findById(messages, messageId)
          IN  IF toString(message.receiver) # u
              THEN /\ resp' = [status |-> 403, error |-> "Unauthorized"]
                   /\ UNCHANGED messages
              ELSE /\ messages' = (messages \ {message}) \cup {[message EXCEPT !.read = TRUE]}
                   /\ resp' = [status |-> 200, message |-> "Message marked as read"]
  /\ UNCHANGED <<fnArgs, fnOut, notifications, connections, jobs, payments, users, procs, posts>>

\* DELETE /:messageId
DeleteMessage(u, messageId) ==
  /\ req' = [op |-> "delete", user |-> u, target |-> messageId]
  /\ IF ~exists(messages, messageId)
     THEN /\ resp' = [status |-> 404, error |-> "Message not found"]
          /\ UNCHANGED messages
     ELSE LET message == findById(messages, messageId)
          IN  IF toString(message.sender) # u
              THEN /\ resp' = [status |-> 403, error |-> "Unauthorized"]
                   /\ UNCHANGED messages
              ELSE /\ messages' = messages \ {message}
                   /\ resp' = [status |-> 200, message |-> "Message deleted successfully"]
  /\ UNCHANGED <<fnArgs, fnOut, notifications, connections, jobs, payments, users, procs, posts>>

\* a count of the unread messages of a conversation, whoever receives them
conversationUnread_AnyReceiver(msgs, u, conversationId) ==
  Cardinality({m \in msgs : m.conversationId = conversationId /\ m.read = FALSE})

\* the unreadCount the forEach adds up for one conversation
conversationUnread(msgs, u, conversationId) ==
  Cardinality({m \in msgs : /\ m.conversationId = conversationId
                             /\ toString(m.receiver) = u
                             /\ m.read = FALSE})

\* GET /conversations: the messages u sent or received, grouped by
\* conversationId
GetConversations(u) ==
  LET Involved(m) == m.sender = castObjectId(u) \/ m.receiver = castObjectId(u)
      found == find(messages, Involved)
  IN  /\ req' = [op |-> "conversations", user |-> u, target |-> <<>>]
      /\ resp' = [status |-> 200,
                  conversations |->
                    {[conversationId |-> c,
                      unreadCount |-> conversationUnread(found, u, c)] :
                       c \in {m.conversationId : m \in found}}]
      /\ UNCHANGED <<fnArgs, fnOut, messages, notifications, connections, jobs, payments, users, procs, posts>>

\* GET /unread/count
GetUnreadMessageCount(u) ==
  LET Unread(m) == m.receiver = castObjectId(u) /\ m.read = FALSE
  IN  /\ req' = [op |-> "unreadCount", user |-> u, target |-> <<>>]
      /\ resp' = [status |-> 200, unreadCount |-> countDocuments(messages, Unread)]
      /\ UNCHANGED <<fnArgs, fnOut, messages, notifications, connections, jobs, payments, users, procs, posts>>

InitMsg ==
  /\ fnArgs = NoArgs
  /\ fnOut = NoOut
  /\ messages = {}
  /\ notifications = {}
  /\ connections = [u \in Users |-> <<>>]
  /\ jobs = {}
  /\ req = NoReq
  /\ resp = NoResp
  /\ payments = <<>>
  /\ users = NoUsers
  /\ procs = NoProcs
  /\ posts = NoPosts

NextMsg ==
  \/ \E u \in Users, receiverId \in ReqIds \cup {<<>>}, content \in Contents :
        SendMessage(u, receiverId, content)
  \/ \E u \in Users, otherUserId \in ReqIds : GetConversation(u, otherUserId)
  \/ \E u \in Users, messageId \in MessageIds : MarkMessageRead(u, messageId)
  \/ \E u \in Users, messageId \in MessageIds : DeleteMessage(u, messageId)
  \/ \E u \in Users : GetUnreadMessageCount(u)
  \/ \E u \in Users : GetConversations(u)

SpecMsg == InitMsg /\ [][NextMsg]_vars

\* C3: every stored message's conversationId equals
\* generateConversationId(sender, receiver) of that message, so the
\* messages of one pair of users share one conversationId
C3_ConversationIdOfPair ==
  \A m \in messages :
     m.conversationId = generateConversationId(m.sender, m.receiver)

----------------------------------------------------------------------------
(* Notification store, the createNotification helper and the
   /api/notifications routes *)

NotificationTypes == {"post_like", "post_comment", "connection_request",
                      "connection_accepted", "profile_view", "job_posted",
                      "job_application", "message"}

NotificationIds == 1..MaxNotifications

\* the helper other routes call; saveOk tells whether the store accepts the
\* write.  The result is the new collection, the returned document's id
\* (0 for null) and whether the call rejected.
createNotification_NoCatch(store, n, saveOk) ==
  IF toString(n.recipient) = toString(n.sender)
  THEN [store |-> store, result |-> 0, threw |-> FALSE]
  ELSE IF ~(/\ n.type \in NotificationTypes
            /\ isValidObjectId(n.recipient) /\ isValidObjectId(n.sender)
            /\ saveOk)
  THEN [store |-> store, result |-> 0, threw |-> TRUE]
  ELSE LET notification == [id |-> NewId(store, NotificationIds),
                            recipient |-> castObjectId(n.recipient),
                            sender |-> castObjectId(n.sender),
                            type |-> n.type,
                            post |-> n.post,
                            job |-> n.job,
                            read |-> FALSE]
       IN  [store |-> store \cup {notification}, result |-> notification.id, threw |-> FALSE]

createNotification_Swapped(store, n, saveOk) ==
  IF toString(n.recipient) = toString(n.sender)
  THEN [store |-> store, result |-> 0, threw |-> FALSE]
  ELSE IF ~(/\ n.type \in NotificationTypes
            /\ isValidObjectId(n.recipient) /\ isValidObjectId(n.sender)
            /\ saveOk)
  THEN [store |-> store, result |-> 0, threw |-> FALSE]
  ELSE LET notification == [id |-> NewId(store, NotificationIds),
                            recipient |-> castObjectId(n.sender),
                            sender |-> castObjectId(n.recipient),
                            type |-> n.type,
                            post |-> n.post,
                            job |-> n.job,
                            read |-> FALSE]
       IN  [store |-> store \cup {notification}, result |-> notification.id, threw |-> FALSE]

createNotification(store, n, saveOk) ==
  IF toString(n.recipient) = toString(n.sender)
  THEN [store |-> store, result |-> 0, threw |-> FALSE]
  ELSE IF ~(/\ n.type \in NotificationTypes
            /\ isValidObjectId(n.recipient) /\ isValidObjectId(n.sender)
            /\ saveOk)
  THEN [store |-> store, result |-> 0, threw |-> FALSE]
  ELSE LET notification == [id |-> NewId(store, NotificationIds),
                            recipient |-> castObjectId(n.recipient),
                            sender |-> castObjectId(n.sender),
                            type |-> n.type,
                            post |-> n.post,
                            job |-> n.job,
                            read |-> FALSE]
       IN  [store |-> store \cup {notification}, result |-> notification.id, threw |-> FALSE]

\* a call of the helper by some route
CreateNotification(recipient, sender, type, saveOk) ==
  /\ Cardinality(notifications) < MaxNotifications
  /\ LET r == createNotification(notifications,
                 [recipient |-> recipient, sender |-> sender, type |-> type,
                  post |-> 0, job |-> 0], saveOk)
     IN  /\ notifications' = r.store
         /\ resp' = [status |-> 0, result |-> r.result]
  /\ req' = [op |-> "createNotification", recipient |-> recipient, sender |-> sender,
             type |-> type, saveOk |-> saveOk]
  /\ UNCHANGED <<fnArgs, fnOut, messages, connections, jobs, payments, users, procs, posts>>

\* PUT /:id/read
MarkNotificationRead(u, id) ==
  LET Mine(n) == n.id = id /\ n.recipient = castObjectId(u)
      Read(n) == [n EXCEPT !.read = TRUE]
  IN  /\ req' = [op |-> "markNotificationRead", user |-> u, target |-> id]
      /\ IF find(notifications, Mine) = {}
         THEN /\ resp' = [status |-> 404, error |-> "Notification not found"]
              /\ UNCHANGED notifications
         ELSE /\ notifications' = updateMany(notifications, Mine, Read)
              /\ resp' = [status |-> 200, notification |-> id]
      /\ UNCHANGED <<fnArgs, fnOut, messages, connections, jobs, payments, users, procs, posts>>

\* PUT /mark-all-read
MarkAllNotificationsRead(u) ==
  LET Unread(n) == n.recipient = castObjectId(u) /\ n.read = FALSE
      Read(n) == [n EXCEPT !.read = TRUE]
  IN  /\ req' = [op |-> "markAllRead", user |-> u, target |-> 0]
      /\ notifications' = updateMany(notifications, Unread, Read)
      /\ resp' = [status |-> 200, message |-> "All notifications marked as read"]
      /\ UNCHANGED <<fnArgs, fnOut, messages, connections, jobs, payments, users, procs, posts>>

\* a delete that does not ask for the recipient
DeleteNotification_AnyUser(u, id) ==
  LET Wanted(n) == n.id = id
  IN  /\ req' = [op |-> "deleteNotification", user |-> u, target |-> id]
      /\ IF find(notifications, Wanted) = {}
         THEN /\ resp' = [status |-> 404, error |-> "Notification not found"]
              /\ UNCHANGED notifications
         ELSE /\ notifications' = notifications \ find(notifications, Wanted)
              /\ resp' = [status |-> 200, message |-> "Notification deleted"]
      /\ UNCHANGED <<fnArgs, fnOut, messages, connections, jobs, payments, users, procs, posts>>

\* DELETE /:id
DeleteNotification(u, id) ==
  LET Mine(n) == n.id = id /\ n.recipient = castObjectId(u)
  IN  /\ req' = [op |-> "deleteNotification", user |-> u, target |-> id]
      /\ IF find(notifications, Mine) = {}
         THEN /\ resp' = [status |-> 404, error |-> "Notification not found"]
              /\ UNCHANGED notifications
         ELSE /\ notifications' = notifications \ find(notifications, Mine)
              /\ resp' = [status |-> 200, message |-> "Notification deleted"]
      /\ UNCHANGED <<fnArgs, fnOut, messages, connections, jobs, payments, users, procs, posts>>

\* GET /unread/count
GetNotificationUnreadCount_AllOfRecipient(u) ==
  LET Mine(n) == n.recipient = castObjectId(u)
  IN  /\ req' = [op |-> "notificationUnreadCount", user |-> u, target |-> 0]
      /\ resp' = [status |-> 200, count |-> countDocuments(notifications, Mine)]
      /\ UNCHANGED <<fnArgs, fnOut, messages, notifications, connections, jobs, payments, users, procs, posts>>

GetNotificationUnreadCount(u) ==
  LET Unread(n) == n.recipient = castObjectId(u) /\ n.read = FALSE
  IN  /\ req' = [op |-> "notificationUnreadCount", user |-> u, target |-> 0]
      /\ resp' = [status |-> 200, count |-> countDocuments(notifications, Unread)]
      /\ UNCHANGED <<fnArgs, fnOut, messages, notifications, connections, jobs, payments, users, procs, posts>>

InitNotif == InitMsg

\* ids the routes hand to the helper: stored ObjectIds and request strings
\* that passed a lookup
NotifyIds == Users \cup {toUpperCase(u) : u \in Users}
NotifyTypes == {"post_like", "message", "poke"}

NextNotif ==
  \/ \E recipient \in NotifyIds, sender \in Users, type \in NotifyTypes, saveOk \in BOOLEAN :
        CreateNotification(recipient, sender, type, saveOk)
  \/ \E u \in Users, id \in NotificationIds : MarkNotificationRead(u, id)
  \/ \E u \in Users : MarkAllNotificationsRead(u)
  \/ \E u \in Users, id \in NotificationIds : DeleteNotification(u, id)
  \/ \E u \in Users : GetNotificationUnreadCount(u)

SpecNotif == InitNotif /\ [][NextNotif]_vars

IsCreateCall ==
  /\ req'.op = "createNotification"
  /\ req'.recipient # req'.sender
  /\ req'.type \in NotificationTypes

OneNewRecord ==
  \E n \in notifications' \ notifications :
     /\ notifications' = notifications \cup {n}
     /\ n.recipient = castObjectId(req'.recipient)
     /\ n.sender = castObjectId(req'.sender)
     /\ n.type = req'.type
     /\ n.read = FALSE

\* C5 as stated: createNotification(x, y, t) with x # y and t in the closed
\* set always adds exactly one record (recipient x, sender y, type t, unread)
\* and changes nothing else in the store
C5_AlwaysOneRecord == [][IsCreateCall => OneNewRecord]_vars

\* C5 amended: createNotification(x, y, t) with x # y and t in the closed
\* set adds exactly that one record when the store accepts the write, and
\* when the write fails it returns null and leaves the store unchanged
C5_OneRecordUnlessWriteFails ==
  [][IsCreateCall =>
       IF req'.saveOk
       THEN OneNewRecord /\ resp'.result # 0
       ELSE notifications' = notifications /\ resp'.result = 0]_vars

C5_Witness ==
  /\ req.op = "createNotification"
  /\ req.recipient # req.sender
  /\ req.type \in NotificationTypes
  /\ req.saveOk
  /\ \E n \in notifications :
        /\ n.id = resp.result
        /\ n.recipient = castObjectId(req.recipient)
        /\ n.recipient # n.sender

\* C7: the unread count returned to user X equals the number of stored
\* notifications with recipient X and read = false at the time of the query
C7_UnreadCountIsDerived ==
  req.op = "notificationUnreadCount" =>
     resp.count = Cardinality({n \in notifications :
                                  n.recipient = req.user /\ n.read = FALSE})

C7_Witness ==
  /\ req.op = "notificationUnreadCount"
  /\ resp.count >= 1
  /\ \E n \in notifications : n.recipient = req.user /\ n.read = TRUE

\* C20: a notification, once created, is in the store in every later
\* state, whatever requests follow
C20_NeverDeleted ==
  [][\A n \in notifications : \E m \in notifications' : m.id = n.id]_vars

\* C20 as the code has it: a notification leaves the store only by a
\* DELETE /:id request of its recipient, which answers 200; every other
\* request keeps it
C20_DeletedOnlyByRecipient ==
  [][\A n \in notifications :
        (\A m \in notifications' : m.id # n.id)
        => (/\ req'.op = "deleteNotification"
            /\ req'.target = n.id
            /\ castObjectId(req'.user) = n.recipient
            /\ resp'.status = 200)]_vars

\* user b deleted a notification of theirs while another one stays
C20_Witness ==
  /\ req.op = "deleteNotification" /\ req.user = <<"b">>
  /\ resp.status = 200
  /\ \A n \in notifications : n.id # req.target
  /\ notifications # {}

----------------------------------------------------------------------------
(* Connections: /api/users/connections routes *)

\* MongooseArray.includes: loose comparison of the given value with each
\* stored id, which compares the string forms
arrayIncludes(arr, value) == \E i \in 1..Len(arr) : toString(arr[i]) = value

RECURSIVE pull(_, _)
pull(arr, value) ==
  IF arr = <<>> THEN <<>>
  ELSE IF Head(arr) = value THEN pull(Tail(arr), value)
  ELSE <<Head(arr)>> \o pull(Tail(arr), value)

addToSet(arr, value) ==
  IF \E i \in 1..Len(arr) : arr[i] = value THEN arr ELSE Append(arr, value)

\* POST /connections/:userId
AddConnection(u, targetUserId) ==
  /\ req' = [op |-> "addConnection", user |-> u, target |-> targetUserId]
  /\ IF targetUserId = u
     THEN /\ resp' = [status |-> 400, error |-> "Cannot connect with yourself"]
          /\ UNCHANGED <<connections, notifications>>
     ELSE IF arrayIncludes(connections[u], targetUserId)
     THEN /\ resp' = [status |-> 400, error |-> "Already connected"]
          /\ UNCHANGED <<connections, notifications>>
     ELSE IF ~isValidObjectId(targetUserId)
     THEN /\ resp' = [status |-> 500, error |-> "Server error"]
          /\ UNCHANGED <<connections, notifications>>
     ELSE /\ Cardinality(notifications) + 2 <= MaxNotifications
          /\ Len(connections[u]) < MaxConnections
          /\ castObjectId(targetUserId) \in Users =>
                Len(connections[castObjectId(targetUserId)]) < MaxConnections
          /\ \E saveOk1 \in BOOLEAN, saveOk2 \in BOOLEAN :
               LET target == castObjectId(targetUserId)
                   pushed == [connections EXCEPT ![u] = Append(@, target)]
                   reverse == IF target \in Users
                              THEN [pushed EXCEPT ![target] = addToSet(@, castObjectId(u))]
                              ELSE pushed
                   n1 == createNotification(notifications,
                            [recipient |-> targetUserId, sender |-> u,
                             type |-> "connection_accepted", post |-> 0, job |-> 0], saveOk1)
                   n2 == createNotification(n1.store,
                            [recipient |-> u, sender |-> targetUserId,
                             type |-> "connection_accepted", post |-> 0, job |-> 0], saveOk2)
               IN  /\ connections' = reverse
                   /\ notifications' = n2.store
                   /\ resp' = [status |-> 200, message |-> "Connection added successfully"]
  /\ UNCHANGED <<fnArgs, fnOut, messages, jobs, payments, users, procs, posts>>

\* DELETE /connections/:userId
RemoveConnection(u, targetUserId) ==
  /\ req' = [op |-> "removeConnection", user |-> u, target |-> targetUserId]
  /\ IF ~isValidObjectId(targetUserId)
     THEN /\ resp' = [status |-> 500, error |-> "Server error"]
          /\ UNCHANGED connections
     ELSE LET target == castObjectId(targetUserId)
              pulled == [connections EXCEPT ![u] = pull(@, target)]
          IN  /\ connections' = IF target \in Users
                                THEN [pulled EXCEPT ![target] = pull(@, castObjectId(u))]
                                ELSE pulled
              /\ resp' = [status |-> 200, message |-> "Connection removed successfully"]
  /\ UNCHANGED <<fnArgs, fnOut, messages, notifications, jobs, payments, users, procs, posts>>

InitConn == InitMsg

NextConn ==
  \/ \E u \in Users, targetUserId \in ReqIds : AddConnection(u, targetUserId)
  \/ \E u \in Users, targetUserId \in ReqIds : RemoveConnection(u, targetUserId)

SpecConn == InitConn /\ [][NextConn]_vars

\* C4: the notification store never holds a record whose recipient equals
\* its sender
C4_NoSelfNotification ==
  \A n \in notifications : n.recipient # n.sender

----------------------------------------------------------------------------
(* Job posting with the job_posted fan-out: POST /api/jobs *)

JobIds == 1..MaxJobs

JobBodies == [complete : BOOLEAN, transactionHash : {<<>>, <<"t", "x">>}]

\* poster.connections.map(createNotification) awaited with Promise.all: every
\* call is started; failing holds the positions whose store write fails
RECURSIVE notifyConnections(_, _, _, _, _, _)
notifyConnections(store, conns, i, failing, sender, jobId) ==
  IF i > Len(conns) THEN [store |-> store, threw |-> FALSE]
  ELSE LET r == createNotification(store,
                   [recipient |-> conns[i], sender |-> sender,
                    type |-> "job_posted", post |-> 0, job |-> jobId],
                   i \notin failing)
           rest == notifyConnections(r.store, conns, i + 1, failing, sender, jobId)
       IN  [store |-> rest.store, threw |-> r.threw \/ rest.threw]

PostJob(u, body, failing) ==
  /\ req' = [op |-> "postJob", user |-> u, body |-> body, failing |-> failing]
  /\ IF ~body.complete
     THEN /\ resp' = [status |-> 400, error |-> "Please provide all required fields"]
          /\ UNCHANGED <<jobs, notifications>>
     ELSE /\ Cardinality(jobs) < MaxJobs
          /\ Cardinality(notifications) + Len(connections[u]) <= MaxNotifications
          /\ LET job == [id |-> NewId(jobs, JobIds),
                         postedBy |-> castObjectId(u),
                         transactionHash |-> body.transactionHash,
                         paymentVerified |-> body.transactionHash # <<>>,
                         blockchain |-> "",
                         status |-> "active",
                         applicants |-> <<>>]
                 fan == notifyConnections(notifications, connections[u], 1, failing, u, job.id)
             IN  /\ jobs' = jobs \cup {job}
                 /\ notifications' = fan.store
                 /\ resp' = IF fan.threw
                            THEN [status |-> 500, error |-> "Server error"]
                            ELSE [status |-> 201, job |-> job.id]
  /\ UNCHANGED <<fnArgs, fnOut, messages, connections, payments, users, procs, posts>>

\* connection lists the connection routes lead to: nobody connected, the two
\* users connected, a connection to an id of no user, to oneself (own id
\* in uppercase), and a repeated connection (other id in uppercase)
ConnectionStates ==
  { (<<"a">> :> <<>> @@ <<"b">> :> <<>>),
    (<<"a">> :> <<<<"b">>>> @@ <<"b">> :> <<<<"a">>>>),
    (<<"a">> :> <<<<"f">>>> @@ <<"b">> :> <<>>),
    (<<"a">> :> <<<<"b">>, <<"f">>>> @@ <<"b">> :> <<<<"a">>>>),
    (<<"a">> :> <<<<"a">>, <<"b">>>> @@ <<"b">> :> <<<<"a">>>>),
    (<<"a">> :> <<<<"b">>, <<"b">>>> @@ <<"b">> :> <<<<"a">>>>) }

InitJobPost ==
  /\ fnArgs = NoArgs
  /\ fnOut = NoOut
  /\ messages = {}
  /\ notifications = {}
  /\ connections \in ConnectionStates
  /\ jobs = {}
  /\ req = NoReq
  /\ resp = NoResp
  /\ payments = <<>>
  /\ users = NoUsers
  /\ procs = NoProcs
  /\ posts = NoPosts

NextJobPost ==
  \/ \E u \in Users, body \in JobBodies :
       \E failing \in SUBSET (1..Len(connections[u])) : PostJob(u, body, failing)

SpecJobPost == InitJobPost /\ [][NextJobPost]_vars

\* C6: when a job is posted, a failing notification write for one
\* connection does not prevent the writes for the other connections and
\* does not abort the job creation: the job is stored and the answer is 201
C6_FanOutFailureIsolated ==
  (req.op = "postJob" /\ req.body.complete) =>
     /\ resp.status = 201
     /\ \E j \in jobs : j.id = resp.job /\ j.postedBy = req.user
     /\ Cardinality({n \in notifications :
                        /\ n.type = "job_posted" /\ n.job = resp.job
                        /\ n.sender = req.user /\ n.read = FALSE})
        = Cardinality({i \in 1..Len(connections[req.user]) :
                          /\ i \notin req.failing
                          /\ connections[req.user][i] # req.user})
     /\ \A i \in 1..Len(connections[req.user]) :
           (i \notin req.failing /\ connections[req.user][i] # req.user) =>
              \E n \in notifications :
                 /\ n.type = "job_posted" /\ n.job = resp.job
                 /\ n.recipient = connections[req.user][i]

C6_Witness ==
  /\ req.op = "postJob" /\ req.body.complete
  /\ resp.status = 201
  /\ req.failing # {}
  /\ \E i \in 1..Len(connections[req.user]) :
        /\ i \notin req.failing
        /\ \E n \in notifications :
              /\ n.type = "job_posted" /\ n.job = resp.job
              /\ n.recipient = connections[req.user][i]
  /\ \E i \in req.failing : connections[req.user][i] # req.user

----------------------------------------------------------------------------
(* Job matching: POST /api/ai/job-match and its fallback heuristic *)

\* length of a year in the model's time unit (the divisor of the code's
\* millisecond difference)
YearLength == 2

NoDate == -1
\* dates are counted in time units from 2000-01-01
DefaultStart == 20 * YearLength
Now == 27 * YearLength

Str_Python == <<"P","y","t","h","o","n">>
Str_python == <<"p","y","t","h","o","n">>
Str_React == <<"R","e","a","c","t">>
Str_Vue == <<"V","u","e">>
\* one job skill naming two technologies
Str_PythonReact == Str_Python \o <<"/">> \o Str_React
Str_NotSpecified == <<"N","o","t"," ","s","p","e","c","i","f","i","e","d">>

\* user.location || 'Not specified' and the other defaults of userProfile
userProfileOf(user) ==
  [skills |-> user.skills,
   location |-> IF user.location # <<>> THEN user.location ELSE Str_NotSpecified,
   experience |-> user.experience,
   education |-> user.education]

\* years of one experience entry, in time units
experienceYears(exp) ==
  LET start == IF exp.startDate # NoDate THEN exp.startDate ELSE DefaultStart
      end == IF exp.current THEN Now
             ELSE IF exp.endDate # NoDate THEN exp.endDate ELSE start
  IN  end - start

RECURSIVE totalYearsExperience(_)
totalYearsExperience(experience) ==
  IF experience = <<>> THEN 0
  ELSE experienceYears(Head(experience)) + totalYearsExperience(Tail(experience))

\* Array.prototype.filter
filter(seq, Keep(_)) ==
  LET F[i \in 0..Len(seq)] ==
        IF i = 0 THEN <<>>
        ELSE IF Keep(seq[i]) THEN Append(F[i - 1], seq[i]) ELSE F[i - 1]
  IN  F[Len(seq)]

skillMatches_CaseSensitive(skills, jobSkills) ==
  LET Matches(skill) ==
        \E k \in 1..Len(jobSkills) :
           \/ includes(jobSkills[k], skill)
           \/ includes(skill, jobSkills[k])
  IN  filter(skills, Matches)

skillMatches(skills, jobSkills) ==
  LET Matches(skill) ==
        \E k \in 1..Len(jobSkills) :
           \/ includes(toLowerCase(jobSkills[k]), toLowerCase(skill))
           \/ includes(toLowerCase(skill), toLowerCase(jobSkills[k]))
  IN  filter(skills, Matches)

Max(a, b) == IF a >= b THEN a ELSE b

\* (matched / max(job skills, 1)) * 40 as a fraction
skillScore(matches, jobSkills) ==
  [num |-> Len(matches) * 40, den |-> Max(Len(jobSkills), 1)]

expLevelMap(level) ==
  CASE level = "entry" -> <<0, 2>>
    [] level = "mid" -> <<2, 5>>
    [] level = "senior" -> <<5, 10>>
    [] level = "lead" -> <<8, 20>>
    [] OTHER -> <<0, 2>>

\* the band without its two extra years
expScore_NoGrace(level, totalYears) ==
  LET minExp == expLevelMap(level)[1]
      maxExp == expLevelMap(level)[2]
  IN  IF totalYears >= minExp * YearLength /\ totalYears <= maxExp * YearLength
      THEN 30
      ELSE IF totalYears >= minExp * YearLength THEN 20
      ELSE 0

\* totalYears is in time units
expScore(level, totalYears) ==
  LET minExp == expLevelMap(level)[1]
      maxExp == expLevelMap(level)[2]
  IN  IF totalYears >= minExp * YearLength /\ totalYears <= (maxExp + 2) * YearLength
      THEN 30
      ELSE IF totalYears >= minExp * YearLength THEN 20
      ELSE 0

\* the comparison without the two toLowerCase calls
locationScore_CaseSensitive(job, userProfile) ==
  IF \/ job.workMode = "remote"
     \/ /\ userProfile.location # <<>>
        /\ includes(job.location, userProfile.location)
  THEN 15 ELSE 5

locationScore(job, userProfile) ==
  IF \/ job.workMode = "remote"
     \/ /\ userProfile.location # <<>>
        /\ includes(toLowerCase(job.location), toLowerCase(userProfile.location))
  THEN 15 ELSE 5

educationScore(userProfile) == IF Len(userProfile.education) > 0 THEN 15 ELSE 5

\* Math.round(skillScore + expScore + locationScore + educationScore)
totalScore(skill, rest) ==
  (2 * skill.num + 2 * rest * skill.den + skill.den) \div (2 * skill.den)

matchCategory_Exclusive(total) ==
  IF total > 90 THEN "Gold Match"
  ELSE IF total > 70 THEN "Strong Match"
  ELSE IF total > 50 THEN "Good Match"
  ELSE "Partial Match"

matchCategory(total) ==
  IF total >= 90 THEN "Gold Match"
  ELSE IF total >= 70 THEN "Strong Match"
  ELSE IF total >= 50 THEN "Good Match"
  ELSE "Partial Match"

\* the matchData the catch branch builds
fallbackMatchData(userProfile, job) ==
  LET matches == skillMatches(userProfile.skills, job.skills)
      total == totalScore(skillScore(matches, job.skills),
                          expScore(job.experienceLevel,
                                   totalYearsExperience(userProfile.experience))
                          + locationScore(job, userProfile)
                          + educationScore(userProfile))
  IN  [matchScore |-> total,
       matchCategory |-> matchCategory(total),
       strengths |-> IF Len(matches) > 0
                     THEN <<[matching |-> Len(matches),
                             skills |-> SubSeq(matches, 1, IF Len(matches) < 3 THEN Len(matches) ELSE 3)]>>
                     ELSE <<"Review job requirements carefully">>,
       gaps |-> IF Len(matches) < Len(job.skills)
                THEN <<"Consider upskilling in required technologies">> ELSE <<>>,
       recommendation |-> IF total >= 70 THEN "Strong candidate - Apply now!"
                          ELSE "Review requirements and highlight relevant experience"]

\* A completion is a sequence of lexemes: braces, one JSON member, prose.
AiMember == "\"matchScore\":85"
AiProse == "Sorry"

\* aiResponse.match(/\{[\s\S]*\}/): from the first '{' to the last '}'
matchObjectSpan(text) ==
  LET opens == {i \in 1..Len(text) : text[i] = "{"}
      first == CHOOSE i \in opens : \A k \in opens : i <= k
      closes == {j \in 1..Len(text) : text[j] = "}" /\ j > first}
      last == CHOOSE j \in closes : \A k \in closes : j >= k
  IN  IF opens = {} THEN <<>>
      ELSE IF closes = {} THEN <<>>
      ELSE SubSeq(text, first, last)

\* JSON.parse of a span of these lexemes
jsonParses(span) == span = <<"{", "}">> \/ span = <<"{", AiMember, "}">>
EmptyObject == <<>>
jsonParse(span) == IF span = <<"{", "}">> THEN EmptyObject ELSE [matchScore |-> 85]

\* callOpenRouterAPI: the completion text, or a failure of the call
AiFailure == <<"AI service error">>
AiTexts == { <<AiProse>>,
             <<"{", AiMember, "}">>,
             <<AiProse, "{", AiMember, "}", AiProse>>,
             <<"{", "}">>,
             <<"{", AiProse, "}">>,
             <<"{", AiMember, "}", AiProse, "}">>,
             <<"{", AiMember>>,
             <<"}", AiProse, "{">> }
AiOutcomes == AiTexts \cup {AiFailure}

JobMatch(u, jobId, ai) ==
  /\ req' = [op |-> "jobMatch", user |-> u, jobId |-> jobId, ai |-> ai]
  /\ IF jobId = <<>>
     THEN resp' = [status |-> 400, error |-> "Job ID is required"]
     ELSE IF jobId # fnArgs.job.id
     THEN resp' = [status |-> 404, error |-> "Job not found"]
     ELSE IF ai = AiFailure
     THEN resp' = [status |-> 500, error |-> "Failed to analyze job match"]
     ELSE LET userProfile == userProfileOf(fnArgs.user)
              span == matchObjectSpan(ai)
          IN  resp' = [status |-> 200,
                       matchData |-> IF span = <<>> THEN EmptyObject
                                     ELSE IF jsonParses(span) THEN jsonParse(span)
                                     ELSE fallbackMatchData(userProfile, fnArgs.job)]
  /\ UNCHANGED <<fnArgs, fnOut, messages, notifications, connections, jobs, payments, users, procs, posts>>

Experiences ==
  { <<>>,
    <<[startDate |-> 20 * YearLength, endDate |-> 23 * YearLength, current |-> FALSE]>>,
    <<[startDate |-> NoDate, endDate |-> NoDate, current |-> TRUE]>>,
    <<[startDate |-> 10 * YearLength, endDate |-> 23 * YearLength, current |-> FALSE],
      [startDate |-> 21 * YearLength, endDate |-> NoDate, current |-> FALSE]>>,
    <<[startDate |-> 24 * YearLength, endDate |-> 25 * YearLength + 1, current |-> FALSE]>> }

MatchUsers ==
  [skills : {<<>>, <<Str_Python, Str_React>>, <<Str_Vue, Str_python, Str_React>>},
   location : {<<>>, <<"n", "y">>, <<"L", "A">>},
   experience : Experiences,
   education : {<<>>, <<"BSc">>}]

MatchJobs ==
  [id : {<<"1">>},
   skills : {<<>>, <<Str_python, Str_Vue>>, <<Str_React>>, <<Str_PythonReact>>},
   experienceLevel : {"entry", "mid", "senior", "lead"},
   workMode : {"remote", "onsite", "hybrid"},
   location : {<<"N", "Y">>, <<"S", "F">>}]

InitMatch ==
  /\ fnArgs \in [user : MatchUsers, job : MatchJobs]
  /\ fnOut = NoOut
  /\ messages = {}
  /\ notifications = {}
  /\ connections = [u \in Users |-> <<>>]
  /\ jobs = {}
  /\ req = NoReq
  /\ resp = NoResp
  /\ payments = <<>>
  /\ users = NoUsers
  /\ procs = NoProcs
  /\ posts = NoPosts

NextMatch ==
  \E jobId \in {<<>>, <<"1">>, <<"9">>}, ai \in AiOutcomes : JobMatch(<<"a">>, jobId, ai)

SpecMatch == InitMatch /\ [][NextMatch]_vars

\* the request reached the AI call for the stored job
ReachedAi == req.op = "jobMatch" /\ req.jobId = fnArgs.job.id

AiCallFailed == req.ai = AiFailure
AiNoObject == req.ai # AiFailure /\ matchObjectSpan(req.ai) = <<>>
AiUnparseable ==
  /\ req.ai # AiFailure
  /\ matchObjectSpan(req.ai) # <<>>
  /\ ~jsonParses(matchObjectSpan(req.ai))

\* C8: the job-match operation answers with the fallback heuristic's
\* matchScore and matchCategory in each of the three cases: the AI call
\* fails, the AI text has a '{...}' span that is not JSON, the AI text has
\* no JSON object at all
C8_FallbackInAllThreeCases ==
  (ReachedAi /\ (AiCallFailed \/ AiNoObject \/ AiUnparseable)) =>
     /\ resp.status = 200
     /\ resp.matchData = fallbackMatchData(userProfileOf(fnArgs.user), fnArgs.job)

C9_Case ==
  /\ fnArgs.user.skills = <<Str_Python, Str_React>>
  /\ fnArgs.job.skills = <<Str_python, Str_Vue>>
  /\ fnArgs.job.experienceLevel = "mid"
  /\ totalYearsExperience(fnArgs.user.experience) = 3 * YearLength
  /\ fnArgs.job.workMode = "remote"
  /\ fnArgs.user.education = <<>>

\* C9: for candidate skills [Python, React], job skills [python, Vue],
\* experienceLevel mid, 3 years of experience, workMode remote and no
\* education the fallback gives skill score 20, experience score 30,
\* location score 15, education score 5, total 70, category Strong Match
C9_FallbackExample ==
  (ReachedAi /\ AiUnparseable /\ C9_Case) =>
     LET userProfile == userProfileOf(fnArgs.user)
         skill == skillScore(skillMatches(userProfile.skills, fnArgs.job.skills),
                             fnArgs.job.skills)
     IN  /\ skill.num = 20 * skill.den
         /\ expScore(fnArgs.job.experienceLevel,
                     totalYearsExperience(userProfile.experience)) = 30
         /\ locationScore(fnArgs.job, userProfile) = 15
         /\ educationScore(userProfile) = 5
         /\ resp.status = 200
         /\ resp.matchData.matchScore = 70
         /\ resp.matchData.matchCategory = "Strong Match"

C9_Witness ==
  /\ ReachedAi /\ AiUnparseable /\ C9_Case
  /\ resp.status = 200
  /\ resp.matchData.matchScore = 70

\* C11: the match score the fallback heuristic returns lies in 0..100 for
\* every candidate skill list, job skill list, experience total, location
\* and education
C11_ScoreInRange ==
  (ReachedAi /\ AiUnparseable) =>
     /\ resp.status = 200
     /\ resp.matchData.matchScore \in 0..100

\* job.workMode is remote, or location is a case-insensitive substring of
\* the job's location
C13_Matches(location) ==
  \/ fnArgs.job.workMode = "remote"
  \/ includes(toLowerCase(fnArgs.job.location), toLowerCase(location))

\* C13: the location score is 15 exactly when the job is remote or the
\* candidate's location as stored on the profile, an empty one included,
\* is a case-insensitive substring of the job's location, and 5 otherwise
C13_LocationAsStored ==
  (ReachedAi /\ AiUnparseable) =>
     locationScore(fnArgs.job, userProfileOf(fnArgs.user))
       = IF C13_Matches(fnArgs.user.location) THEN 15 ELSE 5

\* C13 as the code has it: the location compared is the stored one, or
\* 'Not specified' when the stored one is empty
C13_LocationOrNotSpecified ==
  (ReachedAi /\ AiUnparseable) =>
     locationScore(fnArgs.job, userProfileOf(fnArgs.user))
       = IF C13_Matches(IF fnArgs.user.location = <<>> THEN Str_NotSpecified
                        ELSE fnArgs.user.location)
         THEN 15 ELSE 5

\* an onsite job in NY and a candidate whose stored location is ny
C13_Witness ==
  /\ ReachedAi /\ AiUnparseable
  /\ fnArgs.job.workMode = "onsite"
  /\ fnArgs.job.location = <<"N", "Y">>
  /\ fnArgs.user.location = <<"n", "y">>
  /\ locationScore(fnArgs.job, userProfileOf(fnArgs.user)) = 15

----------------------------------------------------------------------------
(* Specification of the category thresholds as a pure function *)

InitCategory ==
  /\ fnArgs \in [totalScore : 0..MaxTotal]
  /\ fnOut = NoOut
  /\ messages = {}
  /\ notifications = {}
  /\ connections = [u \in Users |-> <<>>]
  /\ jobs = {}
  /\ req = NoReq
  /\ resp = NoResp
  /\ payments = <<>>
  /\ users = NoUsers
  /\ procs = NoProcs
  /\ posts = NoPosts

MatchCategory ==
  /\ ~fnOut.done
  /\ fnOut' = [done |-> TRUE, matchCategory |-> matchCategory(fnArgs.totalScore)]
  /\ UNCHANGED <<fnArgs, messages, notifications, connections, jobs, req, resp, payments, users, procs, posts>>

NextCategory == MatchCategory

SpecCategory == InitCategory /\ [][NextCategory]_vars

\* C10: total >= 90 gives Gold Match, 70..89 Strong Match, 50..69 Good
\* Match and total <= 49 Partial Match
C10_CategoryThresholds ==
  fnOut.done =>
     /\ fnArgs.totalScore >= 90 => fnOut.matchCategory = "Gold Match"
     /\ fnArgs.totalScore \in 70..89 => fnOut.matchCategory = "Strong Match"
     /\ fnArgs.totalScore \in 50..69 => fnOut.matchCategory = "Good Match"
     /\ fnArgs.totalScore <= 49 => fnOut.matchCategory = "Partial Match"

C10_Witness ==
  /\ fnOut.done
  /\ fnArgs.totalScore = 90
  /\ fnOut.matchCategory = "Gold Match"

----------------------------------------------------------------------------
(* Specification of the experience score as a pure function *)

ExperienceLevels == {"entry", "mid", "senior", "lead"}

\* totals in time units, from one year below zero (an end date before the
\* start date) up to MaxYears
InitExp ==
  /\ fnArgs \in [experienceLevel : ExperienceLevels,
                 totalYears : (0 - YearLength)..(MaxYears * YearLength)]
  /\ fnOut = NoOut
  /\ messages = {}
  /\ notifications = {}
  /\ connections = [u \in Users |-> <<>>]
  /\ jobs = {}
  /\ req = NoReq
  /\ resp = NoResp
  /\ payments = <<>>
  /\ users = NoUsers
  /\ procs = NoProcs
  /\ posts = NoPosts

ExpScore ==
  /\ ~fnOut.done
  /\ fnOut' = [done |-> TRUE,
               expScore |-> expScore(fnArgs.experienceLevel, fnArgs.totalYears)]
  /\ UNCHANGED <<fnArgs, messages, notifications, connections, jobs, req, resp, payments, users, procs, posts>>

NextExp == ExpScore

SpecExp == InitExp /\ [][NextExp]_vars

\* the table of the statement, in years
C12_Min(level) ==
  CASE level = "entry" -> 0 [] level = "mid" -> 2
    [] level = "senior" -> 5 [] level = "lead" -> 8
C12_Max(level) ==
  CASE level = "entry" -> 2 [] level = "mid" -> 5
    [] level = "senior" -> 10 [] level = "lead" -> 20

\* C12: with [min,max] = entry [0,2], mid [2,5], senior [5,10], lead [8,20]
\* the experience score is 30 when min <= totalYears <= max+2, 20 when
\* totalYears > max+2 and 0 when totalYears < min
C12_ExperienceBands ==
  fnOut.done =>
     LET lo == C12_Min(fnArgs.experienceLevel) * YearLength
         hi == (C12_Max(fnArgs.experienceLevel) + 2) * YearLength
         t == fnArgs.totalYears
     IN  /\ (lo <= t /\ t <= hi) => fnOut.expScore = 30
         /\ t > hi => fnOut.expScore = 20
         /\ t < lo => fnOut.expScore = 0

\* a total exactly at max+2 of the mid band
C12_Witness ==
  /\ fnOut.done
  /\ fnArgs.experienceLevel = "mid"
  /\ fnArgs.totalYears = 7 * YearLength
  /\ fnOut.expScore = 30

----------------------------------------------------------------------------
(* Pagination of GET /api/jobs and GET /api/posts/feed.  fnArgs holds the
   two collections in creation order: the status of each job and the
   visibility of each post. *)

RECURSIVE SeqsUpTo(_, _)
SeqsUpTo(S, n) ==
  IF n = 0 THEN {<<>>}
  ELSE LET shorter == SeqsUpTo(S, n - 1)
       IN  shorter \cup {Append(q, x) : q \in {r \in shorter : Len(r) = n - 1}, x \in S}

\* the positions of the documents matching the query, newest first
\* (sort '-createdAt')
RECURSIVE findSorted(_, _, _)
findSorted(docs, value, i) ==
  IF i = 0 THEN <<>>
  ELSE IF docs[i] = value THEN <<i>> \o findSorted(docs, value, i - 1)
  ELSE findSorted(docs, value, i - 1)

\* .skip(skip).limit(limit)
skipLimit(found, skip, limit) ==
  SubSeq(found, skip + 1, IF skip + limit < Len(found) THEN skip + limit ELSE Len(found))

\* total / limit rounded down
ceil_Floor(total, limit) == total \div limit

\* Math.ceil(total / limit) for a positive limit
ceil(total, limit) ==
  IF total % limit = 0 THEN total \div limit ELSE (total \div limit) + 1

paginate(op, docs, value, page, limit) ==
  LET skip == (page - 1) * limit
      found == findSorted(docs, value, Len(docs))
      total == Len(found)
  IN  /\ req' = [op |-> op, page |-> page, limit |-> limit]
      /\ resp' = [status |-> 200,
                  items |-> skipLimit(found, skip, limit),
                  pagination |-> [page |-> page, limit |-> limit, total |-> total,
                                  pages |-> ceil(total, limit)]]
      /\ UNCHANGED <<fnArgs, fnOut, messages, notifications, connections, jobs, payments, users, procs, posts>>

GetJobs(page, limit) == paginate("getJobs", fnArgs.jobs, "active", page, limit)

GetFeed(page, limit) == paginate("getFeed", fnArgs.posts, "public", page, limit)

InitPage ==
  /\ fnArgs \in [jobs : SeqsUpTo({"active", "closed"}, MaxDocs),
                 posts : SeqsUpTo({"public", "private"}, MaxDocs)]
  /\ fnOut = NoOut
  /\ messages = {}
  /\ notifications = {}
  /\ connections = [u \in Users |-> <<>>]
  /\ jobs = {}
  /\ req = NoReq
  /\ resp = NoResp
  /\ payments = <<>>
  /\ users = NoUsers
  /\ procs = NoProcs
  /\ posts = NoPosts

NextPage ==
  \/ \E page \in 1..MaxPage, limit \in 1..MaxLimit : GetJobs(page, limit)
  \/ \E page \in 1..MaxPage, limit \in 1..MaxLimit : GetFeed(page, limit)

SpecPage == InitPage /\ [][NextPage]_vars

IsPageRequest == req.op \in {"getJobs", "getFeed"}

\* the number of documents the request's query matches
C14_Total ==
  IF req.op = "getJobs"
  THEN Cardinality({i \in 1..Len(fnArgs.jobs) : fnArgs.jobs[i] = "active"})
  ELSE Cardinality({i \in 1..Len(fnArgs.posts) : fnArgs.posts[i] = "public"})

\* C14: for the job list and the post feed, with positive page and limit,
\* pagination.pages is ceil(total/limit), the least number of pages of
\* size limit that hold total items, and a page beyond pages gives an
\* empty item list with a success answer
C14_PagesAndBeyond ==
  IsPageRequest =>
     LET pages == resp.pagination.pages
     IN  /\ resp.status = 200
         /\ resp.pagination.total = C14_Total
         /\ pages \in Nat
         /\ pages * req.limit >= C14_Total
         /\ \A p \in 0..MaxDocs : p * req.limit >= C14_Total => pages <= p
         /\ req.page > pages => resp.items = <<>>
         /\ req.page <= pages => resp.items # <<>>

\* three matching documents, two per page, third page requested
C14_Witness ==
  /\ IsPageRequest
  /\ C14_Total = 3 /\ req.limit = 2 /\ req.page = 3
  /\ resp.pagination.pages = 2
  /\ resp.items = <<>>
  /\ resp.status = 200

----------------------------------------------------------------------------
(* Payment recording: POST /api/payments/verify-eth, /verify-sol and
   /premium-subscription, and the Payment collection with its unique
   index on transactionHash *)

Hashes == {<<"t", "x">>, <<"t", "y">>}
Blockchains == {"ethereum", "polygon", "solana"}
\* values of a jobId in a request besides the ids of JobIds: none given, a
\* string that is no ObjectId, a well-formed id of no job
NoJobId == 0
BadJobId == -1
GhostJobId == MaxJobs + 1
PaymentRoutes == {"verify-eth", "verify-sol", "premium-subscription"}

\* a lookup that also asks for the paying user
findOnePayment_ByUser(ledger, u, hash) ==
  \E i \in 1..Len(ledger) :
     ledger[i].transactionHash = hash /\ ledger[i].user = u

\* Payment.findOne({ transactionHash }) of the request of user u
findOnePayment(ledger, u, hash) ==
  \E i \in 1..Len(ledger) : ledger[i].transactionHash = hash

\* the validation of the schema: required fields, the enum of blockchain,
\* the cast of relatedJobId
validatePayment(doc) ==
  /\ doc.blockchain \in Blockchains
  /\ doc.fromAddress # ""
  /\ doc.relatedJobId # BadJobId

\* payment.save() on a collection without the unique index
paymentSave_NoUniqueIndex(ledger, doc) ==
  IF ~validatePayment(doc)
  THEN [ok |-> FALSE, ledger |-> ledger]
  ELSE [ok |-> TRUE, ledger |-> Append(ledger, doc)]

\* payment.save(): validation, then the insert, which the unique index on
\* transactionHash rejects for a hash already stored
paymentSave(ledger, doc) ==
  IF \/ ~validatePayment(doc)
     \/ \E i \in 1..Len(ledger) : ledger[i].transactionHash = doc.transactionHash
  THEN [ok |-> FALSE, ledger |-> ledger]
  ELSE [ok |-> TRUE, ledger |-> Append(ledger, doc)]

\* the 'required' check at the head of each route; verify-sol reads the
\* hash from transactionSignature and asks for no blockchain
requiredMissing(route, body) ==
  \/ body.transactionHash = <<>>
  \/ route # "verify-sol" /\ body.blockchain = ""

\* new Payment({...})
paymentOf(route, u, body) ==
  [user |-> u,
   transactionHash |-> body.transactionHash,
   blockchain |-> IF route = "verify-sol" THEN "solana" ELSE body.blockchain,
   fromAddress |-> body.fromAddress,
   purpose |-> IF route = "premium-subscription"
               THEN "premium_subscription" ELSE "job_posting",
   relatedJobId |-> IF route = "premium-subscription" THEN NoJobId ELSE body.jobId]

\* Job.findByIdAndUpdate(jobId, {paymentVerified, transactionHash, blockchain})
updateJobPayment(coll, doc) ==
  IF doc.purpose # "job_posting" \/ doc.relatedJobId = NoJobId THEN coll
  ELSE {IF j.id = doc.relatedJobId
        THEN [j EXCEPT !.paymentVerified = TRUE,
                       !.transactionHash = doc.transactionHash,
                       !.blockchain = doc.blockchain]
        ELSE j : j \in coll}

\* User.findByIdAndUpdate(req.userId, {isPremium, premiumExpiresAt}); the
\* expiry is counted in months from the request
updateUserPremium(us, doc, durationMonths) ==
  IF doc.purpose # "premium_subscription" THEN us
  ELSE [us EXCEPT ![doc.user].isPremium = TRUE,
                  ![doc.user].premiumExpiresAt = durationMonths]

\* the three routes, answered in one piece
RecordPayment(route, u, body) ==
  /\ req' = [op |-> route, user |-> u, body |-> body]
  /\ IF requiredMissing(route, body)
     THEN /\ resp' = [status |-> 400, error |-> "required"]
          /\ UNCHANGED <<payments, jobs, users>>
     ELSE IF findOnePayment(payments, u, body.transactionHash)
     THEN /\ resp' = [status |-> 400, error |-> "Payment already recorded"]
          /\ UNCHANGED <<payments, jobs, users>>
     ELSE LET doc == paymentOf(route, u, body)
              saved == paymentSave(payments, doc)
          IN  IF ~saved.ok
              THEN /\ resp' = [status |-> 500, error |-> "Failed to verify payment"]
                   /\ UNCHANGED <<payments, jobs, users>>
              ELSE /\ payments' = saved.ledger
                   /\ jobs' = updateJobPayment(jobs, doc)
                   /\ users' = updateUserPremium(users, doc, body.durationMonths)
                   /\ resp' = [status |-> 200, error |-> ""]
  /\ UNCHANGED <<fnArgs, fnOut, messages, notifications, connections, procs, posts>>

VerifyEth(u, body) == RecordPayment("verify-eth", u, body)
VerifySol(u, body) == RecordPayment("verify-sol", u, body)
PremiumSubscription(u, body) == RecordPayment("premium-subscription", u, body)

PaymentBodies ==
  [transactionHash : Hashes \cup {<<>>},
   blockchain : {"", "ethereum", "bitcoin"},
   fromAddress : {"0xw"},
   jobId : {NoJobId, 1, BadJobId},
   durationMonths : {1}]

\* one job of user a, posted without a payment
UnpaidJob ==
  [id |-> 1, postedBy |-> <<"a">>, transactionHash |-> <<>>,
   paymentVerified |-> FALSE, blockchain |-> "", status |-> "active",
   applicants |-> <<>>]

InitPay ==
  /\ fnArgs = NoArgs
  /\ fnOut = NoOut
  /\ messages = {}
  /\ notifications = {}
  /\ connections = [u \in Users |-> <<>>]
  /\ jobs = {UnpaidJob}
  /\ req = NoReq
  /\ resp = NoResp
  /\ payments = <<>>
  /\ users = NoUsers
  /\ procs = NoProcs
  /\ posts = NoPosts

NextPay ==
  \/ \E u \in Users, body \in PaymentBodies : VerifyEth(u, body)
  \/ \E u \in Users, body \in PaymentBodies : VerifySol(u, body)
  \/ \E u \in Users, body \in PaymentBodies : PremiumSubscription(u, body)

SpecPay == InitPay /\ [][NextPay]_vars

IsPayment(r) == r.op \in PaymentRoutes

\* C15: when the same transaction hash is submitted twice, one request
\* after the other, to any combination of the three routes, the second
\* call answers 400, adds no Payment record and changes no job and no user
C15_SecondSubmissionConflicts ==
  [][(/\ IsPayment(req) /\ IsPayment(req')
      /\ req.body.transactionHash # <<>>
      /\ req'.body.transactionHash = req.body.transactionHash)
     => (resp'.status = 400 /\ UNCHANGED <<payments, jobs, users>>)]_vars

\* C15 for a hash that a call has recorded: every later call carrying it
\* answers 400 and changes no Payment record, no job and no user; the 400
\* is 'Payment already recorded' unless the call lacks a required field
C15_RecordedHashConflicts ==
  [][(/\ IsPayment(req')
      /\ \E i \in 1..Len(payments) :
            payments[i].transactionHash = req'.body.transactionHash)
     => (/\ resp'.status = 400
         /\ (req'.op = "verify-sol" \/ req'.body.blockchain # "")
               => resp'.error = "Payment already recorded"
         /\ UNCHANGED <<payments, jobs, users>>)]_vars

\* user b asks for premium with the hash user a paid a job posting with
C15_Witness ==
  /\ req.op = "premium-subscription" /\ req.user = <<"b">>
  /\ resp.status = 400 /\ resp.error = "Payment already recorded"
  /\ Len(payments) = 1
  /\ payments[1].transactionHash = req.body.transactionHash
  /\ payments[1].user = <<"a">> /\ payments[1].purpose = "job_posting"
  /\ ~users[<<"b">>].isPremium

----------------------------------------------------------------------------
(* The same three routes with requests in flight at once.  A handler gives
   way to the others at each await: after Payment.findOne, after
   payment.save() and after findByIdAndUpdate. *)

\* up to the first await and its answer: the required check and findOne
PayCheck(p, route, u, body) ==
  /\ procs[p].pc = "idle"
  /\ procs' = [procs EXCEPT ![p] =
        IF requiredMissing(route, body)
        THEN [pc |-> "done", route |-> route, user |-> u, body |-> body,
              status |-> 400, error |-> "required"]
        ELSE IF findOnePayment(payments, u, body.transactionHash)
        THEN [pc |-> "done", route |-> route, user |-> u, body |-> body,
              status |-> 400, error |-> "Payment already recorded"]
        ELSE [pc |-> "save", route |-> route, user |-> u, body |-> body,
              status |-> 0, error |-> ""]]
  /\ UNCHANGED <<fnArgs, fnOut, messages, notifications, connections, jobs,
                 req, resp, payments, users, posts>>

\* await payment.save()
PaySave(p) ==
  /\ procs[p].pc = "save"
  /\ LET saved == paymentSave(payments,
                              paymentOf(procs[p].route, procs[p].user, procs[p].body))
     IN  IF saved.ok
         THEN /\ payments' = saved.ledger
              /\ procs' = [procs EXCEPT ![p].pc = "update"]
         ELSE /\ UNCHANGED payments
              /\ procs' = [procs EXCEPT ![p].pc = "done", ![p].status = 500,
                                        ![p].error = "Failed to verify payment"]
  /\ UNCHANGED <<fnArgs, fnOut, messages, notifications, connections, jobs,
                 req, resp, users, posts>>

\* await findByIdAndUpdate and the answer
PayUpdate(p) ==
  /\ procs[p].pc = "update"
  /\ LET doc == paymentOf(procs[p].route, procs[p].user, procs[p].body)
     IN  /\ jobs' = updateJobPayment(jobs, doc)
         /\ users' = updateUserPremium(users, doc, procs[p].body.durationMonths)
  /\ procs' = [procs EXCEPT ![p].pc = "done", ![p].status = 200]
  /\ UNCHANGED <<fnArgs, fnOut, messages, notifications, connections,
                 req, resp, payments, posts>>

RaceBodies ==
  [transactionHash : Hashes,
   blockchain : {"ethereum"},
   fromAddress : {"0xw"},
   jobId : {1},
   durationMonths : {1}]

InitPayRace == InitPay

NextPayRace ==
  \/ \E p \in 1..MaxProcs, route \in PaymentRoutes, u \in Users, body \in RaceBodies :
        PayCheck(p, route, u, body)
  \/ \E p \in 1..MaxProcs : PaySave(p)
  \/ \E p \in 1..MaxProcs : PayUpdate(p)

SpecPayRace == InitPayRace /\ [][NextPayRace]_vars

\* C16: whatever the interleaving of the requests, no two Payment records
\* carry the same transactionHash
C16_UniqueTransactionHash ==
  \A i, k \in 1..Len(payments) :
     i # k => payments[i].transactionHash # payments[k].transactionHash

\* two requests with one hash both passed the findOne check; one stored the
\* payment, the save of the other was rejected
C16_Witness ==
  \E p, q \in 1..MaxProcs :
     /\ p # q
     /\ procs[p].pc = "done" /\ procs[p].status = 500
     /\ procs[q].pc = "done" /\ procs[q].status = 200
     /\ procs[p].body.transactionHash = procs[q].body.transactionHash
     /\ Len(payments) = 1
     /\ payments[1].transactionHash = procs[p].body.transactionHash

----------------------------------------------------------------------------
(* Skill extraction: POST /api/ai/extract-skills.  A completion is a string
   over letters, the separators and the JSON punctuation. *)

SkillChars == {"a", "b", " ", ",", "\n", "\"", "[", "]"}
IsJsonSpace(c) == c = " " \/ c = "\n"

\* aiResponse.match(/\[.*\]/s): from the first '[' to the last ']' after it
matchArraySpan(text) ==
  LET opens == {i \in 1..Len(text) : text[i] = "["}
      first == CHOOSE i \in opens : \A k \in opens : i <= k
      closes == {j \in 1..Len(text) : text[j] = "]" /\ j > first}
      last == CHOOSE j \in closes : \A k \in closes : j >= k
  IN  IF opens = {} THEN [found |-> FALSE, span |-> <<>>]
      ELSE IF closes = {} THEN [found |-> FALSE, span |-> <<>>]
      ELSE [found |-> TRUE, span |-> SubSeq(text, first, last)]

\* JSON.parse on this alphabet: a value is a string or an array of values
RECURSIVE skipSpace(_, _)
skipSpace(t, i) ==
  IF i <= Len(t) /\ IsJsonSpace(t[i]) THEN skipSpace(t, i + 1) ELSE i

JsonFail == [ok |-> FALSE, next |-> 0, value |-> <<>>]

\* a string literal opening at t[i]; a raw newline inside it is an error
parseString(t, i) ==
  LET quotes == {j \in (i + 1)..Len(t) : t[j] = "\""}
      close == CHOOSE j \in quotes : \A k \in quotes : j <= k
  IN  IF quotes = {} THEN JsonFail
      ELSE IF \E k \in (i + 1)..(close - 1) : t[k] = "\n" THEN JsonFail
      ELSE [ok |-> TRUE, next |-> close + 1,
            value |-> [string |-> SubSeq(t, i + 1, close - 1)]]

RECURSIVE parseValue(_, _)
RECURSIVE parseElements(_, _, _)
parseValue(t, i) ==
  LET k == skipSpace(t, i)
  IN  IF k > Len(t) THEN JsonFail
      ELSE IF t[k] = "\"" THEN parseString(t, k)
      ELSE IF t[k] = "["
      THEN LET m == skipSpace(t, k + 1)
           IN  IF m <= Len(t) /\ t[m] = "]"
               THEN [ok |-> TRUE, next |-> m + 1, value |-> [array |-> <<>>]]
               ELSE parseElements(t, k + 1, <<>>)
      ELSE JsonFail

parseElements(t, i, acc) ==
  LET v == parseValue(t, i)
      m == skipSpace(t, v.next)
  IN  IF ~v.ok THEN JsonFail
      ELSE IF m > Len(t) THEN JsonFail
      ELSE IF t[m] = "," THEN parseElements(t, m + 1, Append(acc, v.value))
      ELSE IF t[m] = "]"
      THEN [ok |-> TRUE, next |-> m + 1, value |-> [array |-> Append(acc, v.value)]]
      ELSE JsonFail

JSONparse(t) ==
  LET v == parseValue(t, 1)
  IN  IF v.ok /\ skipSpace(t, v.next) > Len(t) THEN v ELSE JsonFail

\* .replace(/["\[\]]/g, '')
RECURSIVE stripJsonPunctuation(_)
stripJsonPunctuation(t) ==
  IF t = <<>> THEN <<>>
  ELSE IF Head(t) \in {"\"", "[", "]"} THEN stripJsonPunctuation(Tail(t))
  ELSE <<Head(t)>> \o stripJsonPunctuation(Tail(t))

\* .split(/[,\n]/): the pieces between the separators, empty ones included
RECURSIVE split(_, _)
split(t, piece) ==
  IF t = <<>> THEN <<piece>>
  ELSE IF Head(t) \in {",", "\n"} THEN <<piece>> \o split(Tail(t), <<>>)
  ELSE split(Tail(t), Append(piece, Head(t)))

\* the fallback without its final filter
fallbackSkills_Unfiltered(text) ==
  LET pieces == split(stripJsonPunctuation(text), <<>>)
  IN  [i \in 1..Len(pieces) |-> trim(pieces[i])]

\* replace, split, map(trim), filter(length > 0)
fallbackSkills(text) ==
  LET pieces == split(stripJsonPunctuation(text), <<>>)
      trimmed == [i \in 1..Len(pieces) |-> trim(pieces[i])]
      NonEmpty(x) == Len(x) > 0
  IN  filter(trimmed, NonEmpty)

\* skills.slice(0, 20)
SkillLimit == 20
slice(seq, n) == SubSeq(seq, 1, IF Len(seq) < n THEN Len(seq) ELSE n)

ExtractSkills(text) ==
  /\ req' = [op |-> "extractSkills", text |-> text]
  /\ IF text = <<>>
     THEN resp' = [status |-> 400, error |-> "Text is required", skills |-> <<>>]
     ELSE IF fnArgs.ai = AiFailure
     THEN resp' = [status |-> 500, error |-> "Failed to extract skills", skills |-> <<>>]
     ELSE LET jsonMatch == matchArraySpan(fnArgs.ai)
              parsed == JSONparse(jsonMatch.span)
              skills == IF jsonMatch.found /\ parsed.ok THEN parsed.value.array
                        ELSE fallbackSkills(fnArgs.ai)
          IN  resp' = [status |-> 200, error |-> "", skills |-> slice(skills, SkillLimit)]
  /\ UNCHANGED <<fnArgs, fnOut, messages, notifications, connections, jobs,
                 payments, users, procs, posts>>

InitExtract ==
  /\ fnArgs \in [ai : StringsOver(SkillChars, 0, MaxTextLen) \cup {AiFailure}]
  /\ fnOut = NoOut
  /\ messages = {}
  /\ notifications = {}
  /\ connections = [u \in Users |-> <<>>]
  /\ jobs = {}
  /\ req = NoReq
  /\ resp = NoResp
  /\ payments = <<>>
  /\ users = NoUsers
  /\ procs = NoProcs
  /\ posts = NoPosts

NextExtract == \E text \in {<<>>, <<"b", "i", "o">>} : ExtractSkills(text)

SpecExtract == InitExtract /\ [][NextExtract]_vars

\* the request reached the parsing of a completion
ReachedParsing ==
  req.op = "extractSkills" /\ req.text # <<>> /\ fnArgs.ai # AiFailure

\* the completion holds no JSON array: no '[...]' span, or one that is no JSON
NoJsonArray ==
  \/ ~matchArraySpan(fnArgs.ai).found
  \/ ~JSONparse(matchArraySpan(fnArgs.ai).span).ok

IsLetter(c) == c \in {"a", "b"}

RECURSIVE Flatten(_)
Flatten(ss) == IF ss = <<>> THEN <<>> ELSE Head(ss) \o Flatten(Tail(ss))

\* C17: any completion text without a JSON array gives a successful answer
\* whose skills list is non-empty
C17_FallbackNonEmpty ==
  (ReachedParsing /\ NoJsonArray) =>
     /\ resp.status = 200
     /\ resp.skills # <<>>

\* C17 as the code has it: the answer is successful; the skills are the
\* pieces of the text between commas and newlines, without quotes and
\* brackets, trimmed, the empty pieces left out; the list is non-empty
\* exactly when the text has a character besides blanks, separators,
\* quotes and brackets
C17_FallbackSplits ==
  (ReachedParsing /\ NoJsonArray) =>
     /\ resp.status = 200
     /\ \A i \in 1..Len(resp.skills) :
           LET skill == resp.skills[i]
           IN  /\ skill # <<>>
               /\ \A k \in 1..Len(skill) : IsLetter(skill[k]) \/ skill[k] = " "
               /\ skill[1] # " " /\ skill[Len(skill)] # " "
     /\ SelectSeq(Flatten(resp.skills), IsLetter) = SelectSeq(fnArgs.ai, IsLetter)
     /\ Len(resp.skills)
          = Cardinality({i \in 1..Len(fnArgs.ai) :
               /\ IsLetter(fnArgs.ai[i])
               /\ \A k \in 1..(i - 1) :
                     IsLetter(fnArgs.ai[k]) =>
                        \E m \in (k + 1)..(i - 1) : fnArgs.ai[m] \in {",", "\n"}})
     /\ resp.skills # <<>> <=> \E i \in 1..Len(fnArgs.ai) : IsLetter(fnArgs.ai[i])

\* the completion a,b gives the skills a and b
C17_Witness ==
  /\ ReachedParsing /\ NoJsonArray
  /\ fnArgs.ai = <<"a", ",", "b">>
  /\ resp.status = 200
  /\ resp.skills = << <<"a">>, <<"b">> >>

----------------------------------------------------------------------------
(* Applying for a job: POST /api/jobs/:jobId/apply *)

\* a check that looks at the first applicant only
alreadyApplied_FirstOnly(job, u) ==
  Len(job.applicants) > 0 /\ toString(job.applicants[1].userId) = u

\* job.applicants.some(app => app.userId.toString() === req.userId)
alreadyApplied(job, u) ==
  \E i \in 1..Len(job.applicants) : toString(job.applicants[i].userId) = u

\* the entry pushed to job.applicants
applicantOf(u, file) ==
  [userId |-> castObjectId(u), status |-> "pending", resume |-> file]

\* a save that writes the applicants array of the loaded document back
jobSave_Overwrite(coll, loaded, entry) ==
  {IF j.id = loaded.id
   THEN [j EXCEPT !.applicants = Append(loaded.applicants, entry)]
   ELSE j : j \in coll}

\* job.save() after applicants.push(entry): the update sent to the store
\* is a $push of the new entry onto the stored array
jobSave(coll, loaded, entry) ==
  {IF j.id = loaded.id
   THEN [j EXCEPT !.applicants = Append(j.applicants, entry)]
   ELSE j : j \in coll}

\* $addToSet of {jobId, appliedAt}: the subdocument gets an _id of its own
\* and the default status
addAppliedJob(us, u, jobId) ==
  LET entry == [id |-> Len(us[u].appliedJobs) + 1, jobId |-> jobId,
                status |-> "pending"]
  IN  [us EXCEPT ![u].appliedJobs =
         IF \E i \in 1..Len(@) : @[i] = entry THEN @ ELSE Append(@, entry)]

jobApplicationNotification(job, u) ==
  [recipient |-> job.postedBy, sender |-> u, type |-> "job_application",
   post |-> 0, job |-> job.id]

\* the route answered in one piece
ApplyForJob(u, jobId, file, saveOk) ==
  /\ req' = [op |-> "apply", user |-> u, jobId |-> jobId, file |-> file,
             saveOk |-> saveOk]
  /\ IF jobId = BadJobId
     THEN /\ resp' = [status |-> 500, error |-> "Server error"]
          /\ UNCHANGED <<jobs, notifications, users>>
     ELSE IF ~exists(jobs, jobId)
     THEN /\ resp' = [status |-> 404, error |-> "Job not found"]
          /\ UNCHANGED <<jobs, notifications, users>>
     ELSE LET job == findById(jobs, jobId)
          IN  IF alreadyApplied(job, u)
              THEN /\ resp' = [status |-> 400, error |-> "Already applied to this job"]
                   /\ UNCHANGED <<jobs, notifications, users>>
              ELSE IF ~file /\ users[u].resume = ""
              THEN /\ resp' = [status |-> 400, error |-> "Resume is required"]
                   /\ UNCHANGED <<jobs, notifications, users>>
              ELSE /\ jobs' = jobSave(jobs, job, applicantOf(u, file))
                   /\ notifications' =
                        createNotification(notifications,
                                           jobApplicationNotification(job, u),
                                           saveOk).store
                   /\ users' = addAppliedJob(users, u, job.id)
                   /\ resp' = [status |-> 200, error |-> ""]
  /\ UNCHANGED <<fnArgs, fnOut, messages, connections, payments, procs, posts>>

\* user b has a resume on the profile, user a has none
ApplyUsers == [NoUsers EXCEPT ![<<"b">>].resume = "cv.pdf"]

InitApply ==
  /\ fnArgs = NoArgs
  /\ fnOut = NoOut
  /\ messages = {}
  /\ notifications = {}
  /\ connections = [u \in Users |-> <<>>]
  /\ jobs = {UnpaidJob}
  /\ req = NoReq
  /\ resp = NoResp
  /\ payments = <<>>
  /\ users = ApplyUsers
  /\ procs = NoProcs
  /\ posts = NoPosts

NextApply ==
  \E u \in Users, jobId \in {1, GhostJobId, BadJobId}, file \in BOOLEAN,
     saveOk \in BOOLEAN : ApplyForJob(u, jobId, file, saveOk)

SpecApply == InitApply /\ [][NextApply]_vars

\* the entries of user u in the applicants of job j
ApplicantEntries(j, u) == {i \in 1..Len(j.applicants) : j.applicants[i].userId = u}

\* C19: with requests handled one at a time, an application by a user who
\* is already among the job's applicants answers 400 'Already applied to
\* this job' and leaves applicants, appliedJobs and notifications as they
\* were; every job holds at most one applicant entry per user
C19_SecondApplicationRejected ==
  [][/\ (/\ req'.op = "apply"
          /\ \E j \in jobs : j.id = req'.jobId /\ ApplicantEntries(j, req'.user) # {})
         => (/\ resp'.status = 400
             /\ resp'.error = "Already applied to this job"
             /\ UNCHANGED <<jobs, users, notifications>>)
     /\ \A j \in jobs', u \in Users : Cardinality(ApplicantEntries(j, u)) <= 1]_vars

\* user b applied and applies again
C19_Witness ==
  /\ req.op = "apply" /\ req.user = <<"b">> /\ req.jobId = 1
  /\ resp.status = 400 /\ resp.error = "Already applied to this job"
  /\ \E j \in jobs : j.id = 1 /\ Cardinality(ApplicantEntries(j, <<"b">>)) = 1
  /\ Len(users[<<"b">>].appliedJobs) = 1
  /\ Cardinality(notifications) = 1

----------------------------------------------------------------------------
(* The apply route with requests in flight at once.  A handler gives way to
   the others at each await: Job.findById, User.findById, job.save(),
   createNotification and User.findByIdAndUpdate. *)

\* await Job.findById and the 'already applied' check on the loaded job
ApplyFindJob(p, u, jobId, file) ==
  /\ procs[p].pc = "idle"
  /\ procs' = [procs EXCEPT ![p] =
        IF ~exists(jobs, jobId)
        THEN [pc |-> "done", user |-> u, jobId |-> jobId, file |-> file,
              job |-> UnpaidJob, status |-> 404]
        ELSE IF alreadyApplied(findById(jobs, jobId), u)
        THEN [pc |-> "done", user |-> u, jobId |-> jobId, file |-> file,
              job |-> findById(jobs, jobId), status |-> 400]
        ELSE [pc |-> "findUser", user |-> u, jobId |-> jobId, file |-> file,
              job |-> findById(jobs, jobId), status |-> 0]]
  /\ UNCHANGED <<fnArgs, fnOut, messages, notifications, connections, jobs,
                 req, resp, payments, users, posts>>

\* await User.findById and the resume check
ApplyFindUser(p) ==
  /\ procs[p].pc = "findUser"
  /\ procs' = [procs EXCEPT ![p] =
        IF ~procs[p].file /\ users[procs[p].user].resume = ""
        THEN [@ EXCEPT !.pc = "done", !.status = 400]
        ELSE [@ EXCEPT !.pc = "save"]]
  /\ UNCHANGED <<fnArgs, fnOut, messages, notifications, connections, jobs,
                 req, resp, payments, users, posts>>

\* job.applicants.push and await job.save()
ApplySave(p) ==
  /\ procs[p].pc = "save"
  /\ jobs' = jobSave(jobs, procs[p].job, applicantOf(procs[p].user, procs[p].file))
  /\ procs' = [procs EXCEPT ![p].pc = "notify"]
  /\ UNCHANGED <<fnArgs, fnOut, messages, notifications, connections,
                 req, resp, payments, users, posts>>

\* await createNotification
ApplyNotify(p, saveOk) ==
  /\ procs[p].pc = "notify"
  /\ Cardinality(notifications) < MaxNotifications
  /\ notifications' =
       createNotification(notifications,
                          jobApplicationNotification(procs[p].job, procs[p].user),
                          saveOk).store
  /\ procs' = [procs EXCEPT ![p].pc = "update"]
  /\ UNCHANGED <<fnArgs, fnOut, messages, connections, jobs,
                 req, resp, payments, users, posts>>

\* await User.findByIdAndUpdate and the answer
ApplyUpdateUser(p) ==
  /\ procs[p].pc = "update"
  /\ users' = addAppliedJob(users, procs[p].user, procs[p].job.id)
  /\ procs' = [procs EXCEPT ![p].pc = "done", ![p].status = 200]
  /\ UNCHANGED <<fnArgs, fnOut, messages, notifications, connections, jobs,
                 req, resp, payments, posts>>

InitApplyRace == InitApply

NextApplyRace ==
  \/ \E p \in 1..MaxProcs, u \in Users, jobId \in {1, GhostJobId}, file \in BOOLEAN :
        ApplyFindJob(p, u, jobId, file)
  \/ \E p \in 1..MaxProcs : ApplyFindUser(p)
  \/ \E p \in 1..MaxProcs : ApplySave(p)
  \/ \E p \in 1..MaxProcs, saveOk \in BOOLEAN : ApplyNotify(p, saveOk)
  \/ \E p \in 1..MaxProcs : ApplyUpdateUser(p)

SpecApplyRace == InitApplyRace /\ [][NextApplyRace]_vars

\* request p has written its applicant entry
HasSaved(p) ==
  \/ procs[p].pc \in {"notify", "update"}
  \/ procs[p].pc = "done" /\ procs[p].status = 200

\* C18: two requests in flight of one user for one job can both pass the
\* 'already applied' check; when both have saved, the job's applicants
\* list holds an entry for each of them
C18_BothWritten ==
  \A p, q \in 1..MaxProcs :
     (/\ p # q /\ HasSaved(p) /\ HasSaved(q)
      /\ procs[p].user = procs[q].user /\ procs[p].jobId = procs[q].jobId)
     => \E j \in jobs :
           /\ j.id = procs[p].jobId
           /\ Cardinality(ApplicantEntries(j, procs[p].user)) >= 2

\* both requests of user b answered 200 and job 1 holds two entries of b
C18_Witness ==
  /\ \E p, q \in 1..MaxProcs :
        /\ p # q
        /\ procs[p].pc = "done" /\ procs[p].status = 200
        /\ procs[q].pc = "done" /\ procs[q].status = 200
        /\ procs[p].user = <<"b">> /\ procs[q].user = <<"b">>
        /\ procs[p].job.applicants = <<>> /\ procs[q].job.applicants = <<>>
  /\ \E j \in jobs : j.id = 1 /\ Cardinality(ApplicantEntries(j, <<"b">>)) = 2

----------------------------------------------------------------------------
(* The owner's job routes: PUT /api/jobs/:jobId, PUT /:jobId/close and
   DELETE /:jobId *)

\* a lookup by id alone
findOneOwned_AnyUser(coll, jobId, u) == {j \in coll : j.id = jobId}

\* Job.findOne({ _id: jobId, postedBy: req.userId })
findOneOwned(coll, jobId, u) ==
  {j \in coll : j.id = jobId /\ j.postedBy = castObjectId(u)}

JobStatuses == {"active", "closed", "draft"}
NoValue == "undefined"

\* the allowedUpdates of the body that the job record of the model holds
JobUpdates == [status : JobStatuses \cup {NoValue, "open"}]

UpdateJob(u, jobId, body) ==
  /\ req' = [op |-> "updateJob", user |-> u, jobId |-> jobId, body |-> body]
  /\ IF jobId = BadJobId
     THEN /\ resp' = [status |-> 500, error |-> "Server error"]
          /\ UNCHANGED jobs
     ELSE IF findOneOwned(jobs, jobId, u) = {}
     THEN /\ resp' = [status |-> 404, error |-> "Job not found or unauthorized"]
          /\ UNCHANGED jobs
     ELSE IF body.status \notin JobStatuses \cup {NoValue}
     THEN /\ resp' = [status |-> 500, error |-> "Server error"]
          /\ UNCHANGED jobs
     ELSE /\ jobs' = {IF j \in findOneOwned(jobs, jobId, u) /\ body.status # NoValue
                      THEN [j EXCEPT !.status = body.status] ELSE j : j \in jobs}
          /\ resp' = [status |-> 200, error |-> ""]
  /\ UNCHANGED <<fnArgs, fnOut, messages, notifications, connections,
                 payments, users, procs, posts>>

CloseJob(u, jobId) ==
  /\ req' = [op |-> "closeJob", user |-> u, jobId |-> jobId, body |-> [status |-> NoValue]]
  /\ IF jobId = BadJobId
     THEN /\ resp' = [status |-> 500, error |-> "Server error"]
          /\ UNCHANGED jobs
     ELSE IF findOneOwned(jobs, jobId, u) = {}
     THEN /\ resp' = [status |-> 404, error |-> "Job not found or unauthorized"]
          /\ UNCHANGED jobs
     ELSE /\ jobs' = {IF j \in findOneOwned(jobs, jobId, u)
                      THEN [j EXCEPT !.status = "closed"] ELSE j : j \in jobs}
          /\ resp' = [status |-> 200, error |-> ""]
  /\ UNCHANGED <<fnArgs, fnOut, messages, notifications, connections,
                 payments, users, procs, posts>>

DeleteJob(u, jobId) ==
  /\ req' = [op |-> "deleteJob", user |-> u, jobId |-> jobId, body |-> [status |-> NoValue]]
  /\ IF jobId = BadJobId
     THEN /\ resp' = [status |-> 500, error |-> "Server error"]
          /\ UNCHANGED jobs
     ELSE IF findOneOwned(jobs, jobId, u) = {}
     THEN /\ resp' = [status |-> 404, error |-> "Job not found or unauthorized"]
          /\ UNCHANGED jobs
     ELSE /\ jobs' = jobs \ findOneOwned(jobs, jobId, u)
          /\ resp' = [status |-> 200, error |-> ""]
  /\ UNCHANGED <<fnArgs, fnOut, messages, notifications, connections,
                 payments, users, procs, posts>>

\* one job, posted by either user
InitJobEdit ==
  /\ fnArgs = NoArgs
  /\ fnOut = NoOut
  /\ messages = {}
  /\ notifications = {}
  /\ connections = [u \in Users |-> <<>>]
  /\ jobs \in {{[UnpaidJob EXCEPT !.postedBy = u]} : u \in Users}
  /\ req = NoReq
  /\ resp = NoResp
  /\ payments = <<>>
  /\ users = NoUsers
  /\ procs = NoProcs
  /\ posts = NoPosts

JobIdParams == {1, GhostJobId, BadJobId}

NextJobEdit ==
  \/ \E u \in Users, jobId \in JobIdParams, body \in JobUpdates : UpdateJob(u, jobId, body)
  \/ \E u \in Users, jobId \in JobIdParams : CloseJob(u, jobId)
  \/ \E u \in Users, jobId \in JobIdParams : DeleteJob(u, jobId)

SpecJobEdit == InitJobEdit /\ [][NextJobEdit]_vars

\* C21: an update, close or delete request for a stored job by a user
\* other than its postedBy answers 404 'Job not found or unauthorized' and
\* leaves the job stored with all its fields unchanged
C21_OwnerOnly ==
  [][(/\ req'.op \in {"updateJob", "closeJob", "deleteJob"}
      /\ \E j \in jobs : j.id = req'.jobId /\ j.postedBy # req'.user)
     => (/\ resp'.status = 404
         /\ resp'.error = "Job not found or unauthorized"
         /\ jobs' = jobs)]_vars

\* user b asked to delete the job of user a
C21_Witness ==
  /\ req.op = "deleteJob" /\ req.user = <<"b">> /\ req.jobId = 1
  /\ resp.status = 404
  /\ \E j \in jobs : j.id = 1 /\ j.postedBy = <<"a">>

----------------------------------------------------------------------------
(* Properties of the message routes *)

\* message m is exchanged between users x and y
Between(m, x, y) == {m.sender, m.receiver} = {x, y}

\* C22: opening a conversation by U with V sets read = true on exactly the
\* unread messages between U and V whose receiver is U; the messages whose
\* receiver is V and the messages of every other conversation stay as they
\* are
C22_MarksExactlyUnreadToOpener ==
  [][(req'.op = "conversation" /\ resp'.status = 200)
     => LET U == req'.user
            V == castObjectId(req'.target)
        IN  /\ {m.id : m \in messages'} = {m.id : m \in messages}
            /\ \A m \in messages :
                  IF Between(m, U, V) /\ m.receiver = U /\ m.read = FALSE
                  THEN [m EXCEPT !.read = TRUE] \in messages'
                  ELSE m \in messages']_vars

\* C25: a send request whose receiverId is the sender's own id answers 400
\* and stores nothing, so no stored message has sender equal to receiver
C25_NoSelfMessage ==
  /\ \A m \in messages : m.sender # m.receiver
  /\ (req.op = "send" /\ req.target # <<>>
      /\ isValidObjectId(req.target) /\ castObjectId(req.target) = req.user)
     => resp.status = 400

RECURSIVE SumUnread(_)
SumUnread(convs) ==
  IF convs = {} THEN 0
  ELSE LET c == CHOOSE x \in convs : TRUE
       IN  c.unreadCount + SumUnread(convs \ {c})

\* C23: in the conversation list of user U each unreadCount is the number
\* of stored messages with that conversationId, receiver U and read =
\* false, and the unreadCounts add up to the count of the unread-count
\* query for U in the same state
C23_UnreadCounts ==
  req.op = "conversations" =>
     /\ \A conv \in resp.conversations :
           conv.unreadCount
             = Cardinality({m \in messages : /\ m.conversationId = conv.conversationId
                                              /\ m.receiver = req.user
                                              /\ m.read = FALSE})
     /\ \A m \in messages :
           (m.receiver = req.user \/ m.sender = req.user)
           => \E conv \in resp.conversations : conv.conversationId = m.conversationId
     /\ SumUnread(resp.conversations)
          = Cardinality({m \in messages : m.receiver = req.user /\ m.read = FALSE})

\* user b has an unread message in a conversation in which b also sent an
\* unread message
C23_Witness ==
  /\ req.op = "conversations" /\ req.user = <<"b">>
  /\ \E conv \in resp.conversations :
        /\ conv.unreadCount = 1
        /\ \E m \in messages :
              /\ m.conversationId = conv.conversationId
              /\ m.sender = <<"b">> /\ m.read = FALSE

----------------------------------------------------------------------------
(* Payment gating of job posts *)

\* C24: POST /jobs stores a job only when a payment for it has been
\* verified: every stored job with paymentVerified = true has a Payment
\* record carrying its transactionHash, and no job is stored from a
\* request without a transaction hash
C24_JobNeedsVerifiedPayment ==
  /\ \A j \in jobs :
        j.paymentVerified
        => \E i \in 1..Len(payments) : payments[i].transactionHash = j.transactionHash
  /\ (req.op = "postJob" /\ req.body.transactionHash = <<>>) => resp.status # 201

\* the unread messages of user u
UnreadOf(msgs, u) == {m \in msgs : m.receiver = u /\ m.read = FALSE}

\* C26: the read flag of a message changes only from false to true and
\* only by a request of its receiver, PUT /:messageId/read or opening the
\* conversation; PUT /:messageId/read by another user answers 403 and
\* changes nothing; marking a read message again leaves the unread count
\* as it was
C26_ReadFlagMonotone ==
  [][/\ \A m \in messages, n \in messages' :
          (n.id = m.id /\ n.read # m.read)
          => (/\ m.read = FALSE /\ n.read = TRUE
              /\ req'.op \in {"markRead", "conversation"}
              /\ req'.user = m.receiver)
     /\ \A m \in messages :
          (req'.op = "markRead" /\ req'.target = m.id /\ req'.user # m.receiver)
          => (resp'.status = 403 /\ messages' = messages)
     /\ \A m \in messages :
          (/\ req'.op = "markRead" /\ req'.target = m.id
           /\ req'.user = m.receiver /\ m.read = TRUE)
          => (/\ resp'.status = 200
              /\ Cardinality(UnreadOf(messages', req'.user))
                   = Cardinality(UnreadOf(messages, req'.user)))]_vars

\* the receiver marked a message as read that was read already
C26_Witness ==
  /\ req.op = "markRead" /\ resp.status = 200
  /\ \E m \in messages : m.id = req.target /\ m.receiver = req.user /\ m.read = TRUE
  /\ \E m \in messages : m.id # req.target /\ m.receiver = req.user /\ m.read = FALSE

----------------------------------------------------------------------------
(* Properties of the connection routes *)

IsConnected(x, y) == \E i \in 1..Len(connections[x]) : connections[x][i] = y

\* C27: after every add-connection and remove-connection request the
\* connections of the users are symmetric and irreflexive, and no user
\* appears twice in a connections list
C27_SymmetricIrreflexive ==
  /\ \A x, y \in Users : IsConnected(x, y) <=> IsConnected(y, x)
  /\ \A x \in Users : ~IsConnected(x, x)
  /\ \A x, y \in Users :
        Cardinality({i \in 1..Len(connections[x]) : connections[x][i] = y}) <= 1

----------------------------------------------------------------------------
(* Profile-view tracking: POST /api/users/profile/:userId/view *)

\* 24 hours in the model's clock unit of 12 hours
Day == 2
Times == 0..MaxTime

\* the clock never runs behind a time it has already stamped
ClockAtLeast(now) ==
  \A x \in Users : \A i \in 1..Len(users[x].viewedBy) : users[x].viewedBy[i].viewedAt <= now

recentView(user, viewerId, now) ==
  \E i \in 1..Len(user.viewedBy) :
     /\ toString(user.viewedBy[i].user) = viewerId
     /\ now - user.viewedBy[i].viewedAt < Day

TrackProfileView(viewerId, userId, now, saveOk, notifOk) ==
  /\ ClockAtLeast(now)
  /\ req' = [op |-> "view", user |-> viewerId, userId |-> userId, now |-> now,
             saveOk |-> saveOk, notifOk |-> notifOk]
  /\ IF userId = viewerId
     THEN /\ resp' = [status |-> 200, message |-> "Self-view not tracked"]
          /\ UNCHANGED <<users, notifications>>
     ELSE IF ~isValidObjectId(userId)
     THEN /\ resp' = [status |-> 500, error |-> "Server error"]
          /\ UNCHANGED <<users, notifications>>
     ELSE IF ~findUserById(userId)
     THEN /\ resp' = [status |-> 404, error |-> "User not found"]
          /\ UNCHANGED <<users, notifications>>
     ELSE LET t == castObjectId(userId)
              user == users[t]
          IN  IF recentView(user, viewerId, now)
              THEN /\ resp' = [status |-> 200, message |-> "View tracked"]
                   /\ UNCHANGED <<users, notifications>>
              ELSE /\ Len(user.viewedBy) < MaxViews
                   /\ Cardinality(notifications) < MaxNotifications
                   /\ IF ~saveOk
                      THEN /\ resp' = [status |-> 500, error |-> "Server error"]
                           /\ UNCHANGED <<users, notifications>>
                      ELSE /\ users' = [users EXCEPT
                                 ![t].viewedBy = Append(@, [user |-> castObjectId(viewerId),
                                                            viewedAt |-> now]),
                                 ![t].profileViews = @ + 1]
                           /\ notifications' =
                                 createNotification(notifications,
                                    [recipient |-> userId, sender |-> viewerId,
                                     type |-> "profile_view", post |-> 0, job |-> 0],
                                    notifOk).store
                           /\ resp' = [status |-> 200, message |-> "View tracked"]
  /\ UNCHANGED <<fnArgs, fnOut, messages, connections, jobs, payments, procs, posts>>

InitView == InitMsg

\* the profile the requests name: one user's id in either case, a well-formed
\* id of no user, or a string that is no ObjectId
ViewIds == {<<"a">>, toUpperCase(<<"a">>), GhostId, BadId}

NextView ==
  \E viewerId \in Users, userId \in ViewIds, now \in Times, saveOk, notifOk \in BOOLEAN :
     TrackProfileView(viewerId, userId, now, saveOk, notifOk)

SpecView == InitView /\ [][NextView]_vars

\* C28: a tracked view by another user with no entry in the last 24 hours
\* adds one viewedBy entry, one to profileViews and one profile_view
\* notification; a self-view or a repeat within 24 hours changes nothing;
\* profileViews equals the number of viewedBy entries
C28_OncePerDay ==
  [][req'.op = "view" /\ findUserById(req'.userId) =>
       LET v == req'.user
           t == castObjectId(req'.userId)
           seen == \E i \in 1..Len(users[t].viewedBy) :
                      /\ users[t].viewedBy[i].user = v
                      /\ req'.now - users[t].viewedBy[i].viewedAt < Day
       IN  /\ (t # v /\ ~seen /\ req'.saveOk /\ req'.notifOk /\ resp'.status = 200) =>
                /\ users' = [users EXCEPT
                       ![t].viewedBy = Append(@, [user |-> v, viewedAt |-> req'.now]),
                       ![t].profileViews = @ + 1]
                /\ \E n \in notifications' \ notifications :
                      /\ n.type = "profile_view" /\ n.recipient = t /\ n.sender = v
                      /\ notifications' = notifications \cup {n}
           /\ (t = v \/ seen) => UNCHANGED <<users, notifications>>
           /\ \A x \in Users : users'[x].profileViews = Len(users'[x].viewedBy)]_vars

----------------------------------------------------------------------------
(* Liking a post: POST /api/posts/:postId/like *)

PostIds == 1..MaxPosts
GhostPostId == MaxPosts + 1
BadPostId == -1
PostIdParams == PostIds \cup {GhostPostId, BadPostId}

\* position of the first element equal to value, 0 when there is none
indexOf(arr, value) ==
  IF \E i \in 1..Len(arr) : toString(arr[i]) = value
  THEN CHOOSE i \in 1..Len(arr) :
         /\ toString(arr[i]) = value
         /\ \A k \in 1..(i - 1) : toString(arr[k]) # value
  ELSE 0

splice_Keep(arr, i) == arr

\* the array without its element at position i
splice(arr, i) == SubSeq(arr, 1, i - 1) \o SubSeq(arr, i + 1, Len(arr))

LikePost(u, postId, notifOk, saveOk) ==
  /\ req' = [op |-> "like", user |-> u, postId |-> postId,
             notifOk |-> notifOk, saveOk |-> saveOk]
  /\ IF postId = BadPostId
     THEN /\ resp' = [status |-> 500, error |-> "Server error"]
          /\ UNCHANGED <<posts, notifications>>
     ELSE IF postId \notin DOMAIN posts
     THEN /\ resp' = [status |-> 404, error |-> "Post not found"]
          /\ UNCHANGED <<posts, notifications>>
     ELSE LET post == posts[postId]
              likeIndex == indexOf(post.likes, u)
              likes == IF likeIndex > 0
                       THEN splice(post.likes, likeIndex)
                       ELSE Append(post.likes, castObjectId(u))
          IN  /\ IF likeIndex > 0
                 THEN UNCHANGED notifications
                 ELSE /\ Cardinality(notifications) < MaxNotifications
                      /\ notifications' =
                            createNotification(notifications,
                               [recipient |-> post.author, sender |-> u,
                                type |-> "post_like", post |-> postId, job |-> 0],
                               notifOk).store
              /\ IF saveOk
                 THEN /\ posts' = [posts EXCEPT ![postId].likes = likes]
                      /\ resp' = [status |-> 200,
                                  message |-> IF likeIndex > 0 THEN "Post unliked"
                                                               ELSE "Post liked",
                                  likesCount |-> Len(likes)]
                 ELSE /\ resp' = [status |-> 500, error |-> "Server error"]
                      /\ UNCHANGED posts
  /\ UNCHANGED <<fnArgs, fnOut, messages, connections, jobs, payments, users, procs>>

\* every post has an author and, when created, no likes
InitLike ==
  /\ fnArgs = NoArgs
  /\ fnOut = NoOut
  /\ messages = {}
  /\ notifications = {}
  /\ connections = [u \in Users |-> <<>>]
  /\ jobs = {}
  /\ req = NoReq
  /\ resp = NoResp
  /\ payments = <<>>
  /\ users = NoUsers
  /\ procs = NoProcs
  /\ posts \in [PostIds -> [author : Users, likes : {<<>>}]]

NextLike ==
  \E u \in Users, postId \in PostIdParams, notifOk, saveOk \in BOOLEAN :
     LikePost(u, postId, notifOk, saveOk)

SpecLike == InitLike /\ [][NextLike]_vars

Likers(post) == {post.likes[i] : i \in 1..Len(post.likes)}

\* C29: an answered like request by U adds U to the post's likes when U was
\* absent and removes U when present, and touches nobody else; likes never
\* holds an id twice; a notification is created only by a request that finds
\* U absent and U not the author, and it is a post_like from U to the author
C29_LikeToggles ==
  [][req'.op = "like" /\ req'.postId \in PostIds =>
       LET p == req'.postId
           U == req'.user
       IN  /\ resp'.status = 200 =>
                /\ U \notin Likers(posts[p]) => Likers(posts'[p]) = Likers(posts[p]) \cup {U}
                /\ U \in Likers(posts[p]) => Likers(posts'[p]) = Likers(posts[p]) \ {U}
                /\ \A q \in PostIds \ {p} : posts'[q] = posts[q]
           /\ Len(posts'[p].likes) = Cardinality(Likers(posts'[p]))
           /\ notifications' # notifications =>
                /\ U \notin Likers(posts[p])
                /\ U # posts[p].author
                /\ \E n \in notifications' \ notifications :
                      /\ notifications' = notifications \cup {n}
                      /\ n.type = "post_like" /\ n.recipient = posts[p].author
                      /\ n.sender = U /\ n.post = p]_vars

\* a user other than the author has liked and then unliked the post
C29_Witness ==
  /\ req.op = "like" /\ resp.status = 200 /\ resp.message = "Post unliked"
  /\ \E p \in PostIds :
        /\ req.postId = p /\ req.user # posts[p].author
        /\ posts[p].likes = <<>>
        /\ \E n \in notifications : n.type = "post_like" /\ n.sender = req.user

----------------------------------------------------------------------------
(* Application status: PUT /api/jobs/applications/:jobId/:applicantId/status,
   together with the apply route *)

ApplicationStatuses == {"pending", "reviewed", "shortlisted", "rejected"}

\* what a client can send as status: an allowed one, another word, nothing
StatusInputs == {"reviewed", "shortlisted", "hired", NoValue}

\* position of the first applicant whose userId prints as applicantId, 0
\* when there is none
findApplicant(job, applicantId) ==
  IF \E i \in 1..Len(job.applicants) : toString(job.applicants[i].userId) = applicantId
  THEN CHOOSE i \in 1..Len(job.applicants) :
         /\ toString(job.applicants[i].userId) = applicantId
         /\ \A k \in 1..(i - 1) : toString(job.applicants[k].userId) # applicantId
  ELSE 0

setAppliedJobStatus_Skip(us, applicantId, jobId, status) == us

\* User.findOneAndUpdate({_id, 'appliedJobs.jobId': jobId},
\* {$set: {'appliedJobs.$.status': status}}): the first entry for the job
setAppliedJobStatus(us, applicantId, jobId, status) ==
  LET u == castObjectId(applicantId)
  IN  IF u \in DOMAIN us /\ \E i \in 1..Len(us[u].appliedJobs) : us[u].appliedJobs[i].jobId = jobId
      THEN LET i == CHOOSE i \in 1..Len(us[u].appliedJobs) :
                      /\ us[u].appliedJobs[i].jobId = jobId
                      /\ \A k \in 1..(i - 1) : us[u].appliedJobs[k].jobId # jobId
           IN  [us EXCEPT ![u].appliedJobs[i].status = status]
      ELSE us

UpdateApplicationStatus(u, jobId, applicantId, status) ==
  /\ req' = [op |-> "applicationStatus", user |-> u, jobId |-> jobId,
             applicantId |-> applicantId, status |-> status]
  /\ IF status \notin ApplicationStatuses
     THEN /\ resp' = [status |-> 400, error |-> "Invalid status"]
          /\ UNCHANGED <<jobs, users>>
     ELSE IF jobId = BadJobId
     THEN /\ resp' = [status |-> 500, error |-> "Server error"]
          /\ UNCHANGED <<jobs, users>>
     ELSE IF findOneOwned(jobs, jobId, u) = {}
     THEN /\ resp' = [status |-> 404, error |-> "Job not found or unauthorized"]
          /\ UNCHANGED <<jobs, users>>
     ELSE LET job == CHOOSE j \in findOneOwned(jobs, jobId, u) : TRUE
              applicant == findApplicant(job, applicantId)
          IN  IF applicant = 0
              THEN /\ resp' = [status |-> 404, error |-> "Applicant not found"]
                   /\ UNCHANGED <<jobs, users>>
              ELSE /\ jobs' = {IF j.id = job.id
                                THEN [j EXCEPT !.applicants[applicant].status = status]
                                ELSE j : j \in jobs}
                   /\ users' = setAppliedJobStatus(users, applicantId, jobId, status)
                   /\ resp' = [status |-> 200, error |-> ""]
  /\ UNCHANGED <<fnArgs, fnOut, messages, notifications, connections, payments,
                 procs, posts>>

InitStatus == InitApply

NextStatus ==
  \/ NextApply
  \/ \E u \in Users, jobId \in {1, GhostJobId, BadJobId}, applicantId \in ReqIds,
        status \in StatusInputs : UpdateApplicationStatus(u, jobId, applicantId, status)

SpecStatus == InitStatus /\ [][NextStatus]_vars

AppliedEntries(us, u, jobId) ==
  {i \in 1..Len(us[u].appliedJobs) : us[u].appliedJobs[i].jobId = jobId}

\* the two records of every application: one entry on each side, or none on
\* either, and the same status on both
RecordsAgree(js, us) ==
  \A j \in js, u \in Users :
     /\ Cardinality(ApplicantEntries(j, u)) = Cardinality(AppliedEntries(us, u, j.id))
     /\ \A a \in ApplicantEntries(j, u), i \in AppliedEntries(us, u, j.id) :
           j.applicants[a].status = us[u].appliedJobs[i].status

====
